---- MODULE Spec2Model ----
(***************************************************************************)
(* A model of github.com/dropsite-ai/config: the suffix-driven tree        *)
(* processor (process.go), the scalar rules it applies (secret.go,         *)
(* path.go, validation.go), Load/Save (config.go), the CLI save command    *)
(* (cmd/main.go) and CopyProperty with dotted paths (copy.go).             *)
(*                                                                         *)
(* Go strings are sequences of one-character strings, so that suffix and   *)
(* prefix tests, the username grammar, URL parsing, path cleaning and hex  *)
(* encoding are all computed, character by character.                      *)
(***************************************************************************)
EXTENDS Integers, Sequences, FiniteSets, TLC

VARIABLES
    tree,      \* the caller's configuration value (what the caller observes)
    err,       \* outcome of the last call: "none", "nil", "error", "panic"
    prev,      \* the caller's value just before the last call
    last,      \* name of the last operation
    home,      \* $HOME as os.UserHomeDir sees it (<<>> = unset)
    disk,      \* the config file: [exists, doc]
    ret,       \* the configuration the last Load returned / the CLI ended with
    wrote,     \* the last step wrote the file
    src,       \* CopyProperty: source root
    dst,       \* CopyProperty: destination root
    args       \* the last call's inputs (environment draws, names, paths)

vars == <<tree, err, prev, last, home, disk, ret, wrote, src, dst, args>>

(***************************************************************************)
(* Strings                                                                 *)
(***************************************************************************)
LowerLetters ==
    {"a","b","c","d","e","f","g","h","i","j","k","l","m",
     "n","o","p","q","r","s","t","u","v","w","x","y","z"}

UpperLetters ==
    {"A","B","C","D","E","F","G","H","I","J","K","L","M",
     "N","O","P","Q","R","S","T","U","V","W","X","Y","Z"}

Digits == {"0","1","2","3","4","5","6","7","8","9"}

\* strings.HasSuffix
HasSuffix(s, suffix) ==
    /\ Len(s) >= Len(suffix)
    /\ SubSeq(s, Len(s) - Len(suffix) + 1, Len(s)) = suffix

\* strings.HasPrefix
HasPrefix(s, prefix) ==
    /\ Len(s) >= Len(prefix)
    /\ SubSeq(s, 1, Len(prefix)) = prefix

\* strings.Index for a one-character separator: 0 when absent, else the
\* 1-based position of the first occurrence.
IndexOf(s, c) ==
    IF \E i \in 1..Len(s) : s[i] = c
    THEN CHOOSE i \in 1..Len(s) : s[i] = c /\ \A j \in 1..(i-1) : s[j] # c
    ELSE 0

\* strings.LastIndex for a one-character separator (0 when absent).
LastIndexOf(s, c) ==
    IF \E i \in 1..Len(s) : s[i] = c
    THEN CHOOSE i \in 1..Len(s) : s[i] = c /\ \A j \in (i+1)..Len(s) : s[j] # c
    ELSE 0

\* s[i:] of Go with a 0-based i
From(s, i) == SubSeq(s, i + 1, Len(s))

\* strings.ToLower on the letters the model uses
LowerOf(c) ==
    CASE c = "A" -> "a" [] c = "B" -> "b" [] c = "C" -> "c" [] c = "D" -> "d"
      [] c = "E" -> "e" [] c = "F" -> "f" [] c = "G" -> "g" [] c = "H" -> "h"
      [] c = "I" -> "i" [] c = "J" -> "j" [] c = "K" -> "k" [] c = "L" -> "l"
      [] c = "M" -> "m" [] c = "N" -> "n" [] c = "O" -> "o" [] c = "P" -> "p"
      [] c = "Q" -> "q" [] c = "R" -> "r" [] c = "S" -> "s" [] c = "T" -> "t"
      [] c = "U" -> "u" [] c = "V" -> "v" [] c = "W" -> "w" [] c = "X" -> "x"
      [] c = "Y" -> "y" [] c = "Z" -> "z" [] OTHER -> c

ToLower(s) == [i \in 1..Len(s) |-> LowerOf(s[i])]

\* a Go identifier is exported when it starts with an upper-case letter
IsExported(name) == name # <<>> /\ name[1] \in UpperLetters

\* the exported spelling of a lower-case name (aSecret -> ASecret)
Title(name) ==
    IF name # <<>> /\ name[1] \in LowerLetters
    THEN <<CHOOSE u \in UpperLetters : LowerOf(u) = name[1]>> \o Tail(name)
    ELSE name

(***************************************************************************)
(* secret.go: GenerateJWTSecret                                            *)
(***************************************************************************)
\* make([]byte, 32)
SecretBytes == 32

\* The entropy source is the environment's: one draw is either a failure of
\* rand.Read (EntropyFail) or a seed that stands for one 32-byte vector.
EntropyFail == 0
MaxSeed == 2
EntropyDraws == 0..MaxSeed

\* the byte vector rand.Read delivers for a seed
RandBytes(seed) == [i \in 1..SecretBytes |-> (seed * 89 + i * 37) % 256]

HexTable == <<"0","1","2","3","4","5","6","7","8","9","a","b","c","d","e","f">>

\* encoding/hex EncodeToString: two lowercase digits per byte, high nibble first
HexEncode(bytes) ==
    [i \in 1..(2 * Len(bytes)) |->
        IF i % 2 = 1 THEN HexTable[(bytes[(i + 1) \div 2] \div 16) + 1]
                     ELSE HexTable[(bytes[i \div 2] % 16) + 1]]

\* GenerateJWTSecret for one entropy draw: [s, err]
GenerateJWTSecret(draw) ==
    IF draw = EntropyFail
    THEN [s |-> <<>>, err |-> TRUE]
    ELSE [s |-> HexEncode(RandBytes(draw)), err |-> FALSE]

(***************************************************************************)
(* path.go: ExpandPath (with path/filepath Join and Clean, Unix)           *)
(***************************************************************************)
RECURSIVE SplitSlash(_)
\* strings.Split(s, "/")
SplitSlash(s) ==
    LET i == IndexOf(s, "/") IN
    IF i = 0 THEN <<s>>
    ELSE <<SubSeq(s, 1, i - 1)>> \o SplitSlash(From(s, i))

RECURSIVE JoinSlash(_)
\* strings.Join(parts, "/")
JoinSlash(parts) ==
    IF Len(parts) = 0 THEN <<>>
    ELSE IF Len(parts) = 1 THEN parts[1]
    ELSE parts[1] \o <<"/">> \o JoinSlash(Tail(parts))

RECURSIVE CleanParts(_, _, _)
\* the element loop of filepath.Clean: empty and "." elements are dropped, ".."
\* removes the element before it, is dropped at the root, and is kept at the
\* start of a relative path
CleanParts(parts, out, rooted) ==
    IF Len(parts) = 0 THEN out
    ELSE LET p == parts[1]
             rest == Tail(parts)
         IN IF p = <<>> \/ p = <<".">> THEN CleanParts(rest, out, rooted)
            ELSE IF p = <<".", ".">>
                 THEN IF Len(out) > 0 /\ out[Len(out)] # <<".", ".">>
                      THEN CleanParts(rest, SubSeq(out, 1, Len(out) - 1), rooted)
                      ELSE IF rooted THEN CleanParts(rest, out, rooted)
                      ELSE CleanParts(rest, Append(out, p), rooted)
            ELSE CleanParts(rest, Append(out, p), rooted)

\* filepath.Clean
Clean(path) ==
    IF path = <<>> THEN <<".">>
    ELSE LET rooted == path[1] = "/"
             out(body) == IF rooted THEN <<"/">> \o body
                          ELSE IF body = <<>> THEN <<".">> ELSE body
         IN out(JoinSlash(CleanParts(SplitSlash(path), <<>>, rooted)))

\* filepath.Join(a, b): the first non-empty element onwards, joined and cleaned
Join(a, b) ==
    IF a # <<>> THEN Clean(a \o <<"/">> \o b)
    ELSE IF b # <<>> THEN Clean(b)
    ELSE <<>>

\* os.UserHomeDir on Unix: $HOME, an error when it is empty
UserHomeDir(h) == [dir |-> h, err |-> h = <<>>]

\* an ExpandPath that glues the home directory and the rest of the path
\* together without filepath.Join
ExpandPathConcat(path, h) ==
    IF HasPrefix(path, <<"~">>)
    THEN IF UserHomeDir(h).err
         THEN [s |-> <<>>, err |-> TRUE]
         ELSE [s |-> UserHomeDir(h).dir \o From(path, 1), err |-> FALSE]
    ELSE [s |-> path, err |-> FALSE]

\* ExpandPath: [s, err]
ExpandPath(path, h) ==
    IF HasPrefix(path, <<"~">>)
    THEN IF UserHomeDir(h).err
         THEN [s |-> <<>>, err |-> TRUE]
         ELSE [s |-> Join(UserHomeDir(h).dir, From(path, 1)), err |-> FALSE]
    ELSE [s |-> path, err |-> FALSE]

(***************************************************************************)
(* validation.go: ValidateUsername, ValidateURL (with net/url Parse)       *)
(***************************************************************************)
\* the {0,31} of usernameRegex
UsernameTailMax == 31

\* usernameRegex.MatchString: ^[a-z_][a-z0-9_-]{0,31}$
UsernameMatch(u) ==
    /\ Len(u) >= 1
    /\ Len(u) <= 1 + UsernameTailMax
    /\ u[1] \in LowerLetters \cup {"_"}
    /\ \A i \in 2..Len(u) : u[i] \in LowerLetters \cup Digits \cup {"_", "-"}

\* a ValidateUsername whose pattern lost its anchors and its length limit: any
\* string that starts like a username passes
ValidateUsernameUnanchored(u) ==
    ~(Len(u) >= 1 /\ u[1] \in LowerLetters \cup {"_"})

\* ValidateUsername: TRUE when it returns an error
ValidateUsername(u) == ~UsernameMatch(u)

\* The characters the model's URL strings are written in.  net/url treats
\* '%', '@', '[', '?', '#', '*' and control bytes specially; they are outside
\* this alphabet and the parse below does not cover them.
UrlAlphabet ==
    LowerLetters \cup UpperLetters \cup Digits \cup {":", "/", "~", ".", "-", "_", "+"}

\* net/url getScheme: [scheme, rest, err]
GetScheme(raw) ==
    LET isLetter(c) == c \in LowerLetters \cup UpperLetters
        isSchemeExtra(c) == c \in Digits \cup {"+", "-", "."}
        \* first position that is not a letter, and not a digit/+/-/. past the start
        stops == {i \in 1..Len(raw) : ~isLetter(raw[i]) /\ ~(isSchemeExtra(raw[i]) /\ i > 1)}
    IN IF stops = {} THEN [scheme |-> <<>>, rest |-> raw, err |-> FALSE]
       ELSE LET i == CHOOSE k \in stops : \A j \in stops : k <= j IN
            IF raw[i] = ":"
            THEN IF i = 1 THEN [scheme |-> <<>>, rest |-> <<>>, err |-> TRUE]
                 ELSE [scheme |-> SubSeq(raw, 1, i - 1), rest |-> From(raw, i), err |-> FALSE]
            ELSE [scheme |-> <<>>, rest |-> raw, err |-> FALSE]

\* net/url validOptionalPort: "" or ":" followed by digits
ValidOptionalPort(port) ==
    \/ port = <<>>
    \/ /\ port[1] = ":"
       /\ \A i \in 2..Len(port) : port[i] \in Digits

\* net/url parseHost: [host, err]; every character of UrlAlphabet but '/' may
\* stand unescaped in a host
ParseHost(host) ==
    LET i == LastIndexOf(host, ":") IN
    IF i # 0 /\ ~ValidOptionalPort(From(host, i - 1))
    THEN [host |-> <<>>, err |-> TRUE]
    ELSE [host |-> host, err |-> FALSE]

\* net/url Parse (viaRequest = false): [scheme, host, err]
UrlParse(raw) ==
    LET \* s up to its first '/', all of s when it has none
        upTo(s, cut) == IF cut = 0 THEN s ELSE SubSeq(s, 1, cut - 1)
        firstSeg(s) == upTo(s, IndexOf(s, "/"))
        hosted(scheme, ph) == [scheme |-> scheme, host |-> ph.host, err |-> ph.err]
        parse(scheme, rest) ==
            IF ~HasPrefix(rest, <<"/">>)
            THEN IF scheme # <<>>
                 THEN \* opaque: scheme:rest, no host
                      [scheme |-> scheme, host |-> <<>>, err |-> FALSE]
                 ELSE \* a colon in the first path segment is a malformed scheme
                      [scheme |-> scheme, host |-> <<>>,
                       err |-> IndexOf(firstSeg(rest), ":") # 0]
            ELSE IF (scheme # <<>> \/ ~HasPrefix(rest, <<"/", "/", "/">>))
                    /\ HasPrefix(rest, <<"/", "/">>)
                 THEN \* the authority is rest[2:] up to the next '/'
                      hosted(scheme, ParseHost(firstSeg(From(rest, 2))))
                 ELSE [scheme |-> scheme, host |-> <<>>, err |-> FALSE]
        start(gs) ==
            IF gs.err THEN [scheme |-> <<>>, host |-> <<>>, err |-> TRUE]
            ELSE parse(ToLower(gs.scheme), gs.rest)
    IN start(GetScheme(raw))

\* a ValidateURL that tests the scheme only
ValidateURLSchemeOnly(u) ==
    LET bad(parsed) == parsed.err \/ parsed.scheme = <<>>
    IN bad(UrlParse(u))

\* ValidateURL: TRUE when it returns an error
ValidateURL(u) ==
    LET bad(parsed) == parsed.err \/ parsed.scheme = <<>> \/ parsed.host = <<>>
    IN bad(UrlParse(u))

(***************************************************************************)
(* process.go: processString, the scalar rule engine                       *)
(***************************************************************************)
SufSecret == <<"S","e","c","r","e","t">>
SufPath == <<"P","a","t","h">>
SufUser == <<"U","s","e","r">>
SufURL == <<"U","R","L">>

\* processString(s, fieldName) for one entropy draw and $HOME:
\* [s, err, used] where used tells that the draw was consumed
\* processString with the emptiness test of the Secret case left out: a secret
\* is generated whatever the current value is.
processStringRegenerates(s, fieldName, draw, h) ==
    LET \* "newSecret, err := GenerateJWTSecret()" and what follows
        secret(g) == IF g.err THEN [s |-> s, err |-> TRUE, used |-> TRUE]
                     ELSE [s |-> g.s, err |-> FALSE, used |-> TRUE]
        \* "expanded, err := ExpandPath(s)" and what follows
        path(e) == IF e.err THEN [s |-> s, err |-> TRUE, used |-> FALSE]
                   ELSE [s |-> e.s, err |-> FALSE, used |-> FALSE]
    IN
    IF HasSuffix(fieldName, SufSecret)
    THEN secret(GenerateJWTSecret(draw))
    ELSE IF HasSuffix(fieldName, SufPath)
    THEN IF s # <<>>
         THEN path(ExpandPath(s, h))
         ELSE [s |-> s, err |-> FALSE, used |-> FALSE]
    ELSE IF HasSuffix(fieldName, SufUser)
    THEN [s |-> s, err |-> s # <<>> /\ ValidateUsername(s), used |-> FALSE]
    ELSE IF HasSuffix(fieldName, SufURL)
    THEN [s |-> s, err |-> s # <<>> /\ ValidateURL(s), used |-> FALSE]
    ELSE [s |-> s, err |-> FALSE, used |-> FALSE]

\* processString with the Path case taking every non-empty value as relative
\* to the home directory, whether or not it begins with ~
processStringRehomes(s, fieldName, draw, h) ==
    LET secret(g) == IF g.err THEN [s |-> s, err |-> TRUE, used |-> TRUE]
                     ELSE [s |-> g.s, err |-> FALSE, used |-> TRUE]
        path(e) == IF e.err THEN [s |-> s, err |-> TRUE, used |-> FALSE]
                   ELSE [s |-> e.s, err |-> FALSE, used |-> FALSE]
    IN
    IF HasSuffix(fieldName, SufSecret)
    THEN IF s = <<>>
         THEN secret(GenerateJWTSecret(draw))
         ELSE [s |-> s, err |-> FALSE, used |-> FALSE]
    ELSE IF HasSuffix(fieldName, SufPath)
    THEN IF s # <<>>
         THEN path(ExpandPath(IF HasPrefix(s, <<"~">>) THEN s ELSE <<"~", "/">> \o s, h))
         ELSE [s |-> s, err |-> FALSE, used |-> FALSE]
    ELSE IF HasSuffix(fieldName, SufUser)
    THEN [s |-> s, err |-> s # <<>> /\ ValidateUsername(s), used |-> FALSE]
    ELSE IF HasSuffix(fieldName, SufURL)
    THEN [s |-> s, err |-> s # <<>> /\ ValidateURL(s), used |-> FALSE]
    ELSE [s |-> s, err |-> FALSE, used |-> FALSE]

processString(s, fieldName, draw, h) ==
    LET \* "newSecret, err := GenerateJWTSecret()" and what follows
        secret(g) == IF g.err THEN [s |-> s, err |-> TRUE, used |-> TRUE]
                     ELSE [s |-> g.s, err |-> FALSE, used |-> TRUE]
        \* "expanded, err := ExpandPath(s)" and what follows
        path(e) == IF e.err THEN [s |-> s, err |-> TRUE, used |-> FALSE]
                   ELSE [s |-> e.s, err |-> FALSE, used |-> FALSE]
    IN
    IF HasSuffix(fieldName, SufSecret)
    THEN IF s = <<>>
         THEN secret(GenerateJWTSecret(draw))
         ELSE [s |-> s, err |-> FALSE, used |-> FALSE]
    ELSE IF HasSuffix(fieldName, SufPath)
    THEN IF s # <<>>
         THEN path(ExpandPath(s, h))
         ELSE [s |-> s, err |-> FALSE, used |-> FALSE]
    ELSE IF HasSuffix(fieldName, SufUser)
    THEN [s |-> s, err |-> s # <<>> /\ ValidateUsername(s), used |-> FALSE]
    ELSE IF HasSuffix(fieldName, SufURL)
    THEN [s |-> s, err |-> s # <<>> /\ ValidateURL(s), used |-> FALSE]
    ELSE [s |-> s, err |-> FALSE, used |-> FALSE]

(***************************************************************************)
(* Go values as reflect sees them.  A value is a record tagged by its      *)
(* reflect.Kind.  Interface and pointer slots are explicit nodes, so the   *)
(* static type of every slot can be read off the tree.                     *)
(***************************************************************************)
Str(s) == [kind |-> "string", str |-> s]
IntV(n) == [kind |-> "int", num |-> n]
Field(n, e, v) == [name |-> n, exported |-> e, val |-> v]
Struct(t, fs) == [kind |-> "struct", tname |-> t, fields |-> fs]
Entry(k, v) == [key |-> k, val |-> v]
\* keykind is the Kind of the map's key type; keys are kept as strings
MapOf(kk, es) == [kind |-> "map", keykind |-> kk, entries |-> es]
Slice(es) == [kind |-> "slice", elems |-> es]
Array(es) == [kind |-> "array", elems |-> es]
Ptr(v) == [kind |-> "ptr", isnil |-> FALSE, elem |-> <<v>>]
NilPtr == [kind |-> "ptr", isnil |-> TRUE, elem |-> <<>>]
Iface(v) == [kind |-> "interface", isnil |-> FALSE, elem |-> <<v>>]
NilIface == [kind |-> "interface", isnil |-> TRUE, elem |-> <<>>]
\* reflect.ValueOf(nil): the zero Value
Invalid == [kind |-> "invalid"]

\* the kinds processValue recurses into from a map value or a sequence element
RecurseKinds == {"map", "struct", "slice", "array", "ptr", "interface"}

\* the loop "for v.Kind() == reflect.Interface && !v.IsNil() { v = v.Elem() }"
\* (the dynamic value of an interface is never itself an interface)
IsBoxed(v) == v.kind = "interface" /\ ~v.isnil
Unwrap(v) == IF IsBoxed(v) THEN v.elem[1] ELSE v
\* a store that would leave the bare value in a slot of interface type
ReboxBare(old, new) == new
\* storing a value into a slot whose static type is that of old
Rebox(old, new) == IF IsBoxed(old) THEN Iface(new) ELSE new

\* a dropped copy that would take everything reachable from it along, shared
\* maps, slices and pointees included (a full rollback of the entry)
DiscardDeep(orig, mut) == orig

RECURSIVE Discard(_, _)
\* What the caller still sees of a private copy that was processed and then
\* dropped without being stored back: its own words (strings, numbers, struct
\* fields, array elements) are lost, whatever it shares with the original
\* through a pointer, a map or a slice header is kept.
Discard(orig, mut) ==
    CASE orig.kind = "struct" ->
            Struct(orig.tname,
                   [i \in 1..Len(orig.fields) |->
                       Field(orig.fields[i].name, orig.fields[i].exported,
                             Discard(orig.fields[i].val, mut.fields[i].val))])
      [] orig.kind = "array" ->
            Array([i \in 1..Len(orig.elems) |-> Discard(orig.elems[i], mut.elems[i])])
      [] orig.kind = "interface" ->
            IF orig.isnil THEN orig ELSE Iface(Discard(orig.elem[1], mut.elem[1]))
      [] orig.kind \in {"ptr", "map", "slice"} -> mut
      [] OTHER -> orig

\* The copy that processValue makes of a map value or a sequence element is
\* stored back only when the recursion succeeded.  st.keep is FALSE in every
\* call the program makes; TRUE gives the reference behaviour "every copy is
\* stored back", against which the no-rollback statements are compared.
Dropped(orig, mut, st) == IF st.keep THEN mut ELSE Discard(orig, mut)

\* the entropy stream of one call: the head is the next draw, the last draw
\* repeats
NextDraw(rnd) == rnd[1]
Consume(rnd, used) == IF used /\ Len(rnd) > 1 THEN Tail(rnd) ELSE rnd

\* v.MapKeys() returns the keys in no particular order: the positions of a
\* map's entries in the order this call visits them
MapOrder(n, rev) == [i \in 1..n |-> IF rev THEN n + 1 - i ELSE i]

Res(v, e, rnd) == [val |-> v, err |-> e, rnd |-> rnd]

RECURSIVE processValue(_, _, _, _)
RECURSIVE processStructCase(_, _, _, _)
RECURSIVE processMapCase(_, _, _, _)
RECURSIVE processSeqCase(_, _, _, _, _)

\* processValue(v, name): canSet is v.CanSet(); st carries the entropy stream,
\* the map iteration order and $HOME.  The result is the value the caller sees
\* afterwards, the outcome ("nil", "error" or "panic") and the entropy left.
processValue(v, name, canSet, st) ==
    CASE v.kind = "invalid" -> Res(v, "nil", st.rnd)
      [] v.kind = "interface" ->
            IF v.isnil THEN Res(v, "nil", st.rnd)
            ELSE \* Elem() of an interface is not addressable
                 LET boxed(r) == Res(Iface(r.val), r.err, r.rnd)
                 IN boxed(processValue(v.elem[1], name, FALSE, st))
      [] v.kind = "ptr" ->
            IF v.isnil THEN Res(v, "nil", st.rnd)
            ELSE \* Elem() of a pointer is addressable
                 LET pointed(r) == Res(Ptr(r.val), r.err, r.rnd)
                 IN pointed(processValue(v.elem[1], name, TRUE, st))
      [] v.kind = "struct" -> processStructCase(v, 1, canSet, st)
      [] v.kind = "map" ->
            IF v.keykind # "string" THEN Res(v, "nil", st.rnd)
            ELSE processMapCase(v, 1, canSet, st)
      [] v.kind \in {"slice", "array"} -> processSeqCase(v, 1, name, canSet, st)
      [] v.kind = "string" ->
            IF canSet
            THEN LET set(r) == IF r.err THEN Res(v, "error", Consume(st.rnd, r.used))
                                ELSE Res(Str(r.s), "nil", Consume(st.rnd, r.used))
                 IN set(processString(v.str, name, NextDraw(st.rnd), st.h))
            ELSE Res(v, "nil", st.rnd)
      [] OTHER -> Res(v, "nil", st.rnd)

RECURSIVE processStructCaseRev(_, _, _, _)
\* the struct case had it visited the fields from the last declared to the
\* first
processStructCaseRev(v, i, canSet, st) ==
    IF i > Len(v.fields) THEN Res(v, "nil", st.rnd)
    ELSE LET at == Len(v.fields) + 1 - i
             f == v.fields[at]
             put(x) == Struct(v.tname, [v.fields EXCEPT ![at] = Field(f.name, f.exported, x)])
         IN IF ~f.exported THEN processStructCaseRev(v, i + 1, canSet, st)
            ELSE IF f.val.kind = "string" /\ canSet
            THEN LET set(r, rnd) ==
                        IF r.err THEN Res(v, "error", rnd)
                        ELSE processStructCaseRev(put(Str(r.s)), i + 1, canSet,
                                                  [st EXCEPT !.rnd = rnd])
                     used(r) == set(r, Consume(st.rnd, r.used))
                 IN used(processString(f.val.str, f.name, NextDraw(st.rnd), st.h))
            ELSE LET into(r) ==
                        IF r.err # "nil" THEN Res(put(r.val), r.err, r.rnd)
                        ELSE processStructCaseRev(put(r.val), i + 1, canSet,
                                                  [st EXCEPT !.rnd = r.rnd])
                 IN into(processValue(f.val, f.name, canSet, st))

\* the struct case, from field i on (declaration order)
processStructCase(v, i, canSet, st) ==
    IF i > Len(v.fields) THEN Res(v, "nil", st.rnd)
    ELSE LET f == v.fields[i]
             put(x) == Struct(v.tname, [v.fields EXCEPT ![i] = Field(f.name, f.exported, x)])
         IN IF ~f.exported THEN processStructCase(v, i + 1, canSet, st)
            ELSE IF f.val.kind = "string" /\ canSet
            THEN \* processStringField
                 LET set(r, rnd) ==
                        IF r.err THEN Res(v, "error", rnd)
                        ELSE processStructCase(put(Str(r.s)), i + 1, canSet,
                                               [st EXCEPT !.rnd = rnd])
                     used(r) == set(r, Consume(st.rnd, r.used))
                 IN used(processString(f.val.str, f.name, NextDraw(st.rnd), st.h))
            ELSE LET into(r) ==
                        IF r.err # "nil" THEN Res(put(r.val), r.err, r.rnd)
                        ELSE processStructCase(put(r.val), i + 1, canSet,
                                               [st EXCEPT !.rnd = r.rnd])
                 IN into(processValue(f.val, f.name, canSet, st))

RECURSIVE processMapCaseFirstKey(_, _, _, _)
\* the map case had it handed every value to the rule of one name, that of
\* the map's first key, instead of the value's own key
processMapCaseFirstKey(v, i, canSet, st) ==
    IF i > Len(v.entries) THEN Res(v, "nil", st.rnd)
    ELSE LET pos == MapOrder(Len(v.entries), st.rev)[i]
             e == v.entries[pos]
             k == v.entries[1].key
             valItem == Unwrap(e.val)
             put(x) == MapOf(v.keykind, [v.entries EXCEPT ![pos] = Entry(e.key, x)])
         IN IF valItem.kind = "string"
            THEN LET set(r, rnd) ==
                        IF r.err THEN Res(v, "error", rnd)
                        ELSE processMapCaseFirstKey(put(Rebox(e.val, Str(r.s))), i + 1,
                                                    canSet, [st EXCEPT !.rnd = rnd])
                     used(r) == set(r, Consume(st.rnd, r.used))
                 IN used(processString(valItem.str, k, NextDraw(st.rnd), st.h))
            ELSE IF valItem.kind \in RecurseKinds
            THEN LET into(r) ==
                        IF r.err # "nil"
                        THEN Res(put(Rebox(e.val, Dropped(valItem, r.val, st))), r.err, r.rnd)
                        ELSE processMapCaseFirstKey(put(Rebox(e.val, r.val)), i + 1,
                                                    canSet, [st EXCEPT !.rnd = r.rnd])
                 IN into(processValue(valItem, k, TRUE, st))
            ELSE processMapCaseFirstKey(v, i + 1, canSet, st)

\* the map case, from the i-th visited key on
processMapCase(v, i, canSet, st) ==
    IF i > Len(v.entries) THEN Res(v, "nil", st.rnd)
    ELSE LET pos == MapOrder(Len(v.entries), st.rev)[i]
             e == v.entries[pos]
             valItem == Unwrap(e.val)
             put(x) == MapOf(v.keykind, [v.entries EXCEPT ![pos] = Entry(e.key, x)])
         IN IF valItem.kind = "string"
            THEN LET set(r, rnd) ==
                        IF r.err THEN Res(v, "error", rnd)
                        ELSE processMapCase(put(Rebox(e.val, Str(r.s))), i + 1, canSet,
                                            [st EXCEPT !.rnd = rnd])
                     used(r) == set(r, Consume(st.rnd, r.used))
                 IN used(processString(valItem.str, e.key, NextDraw(st.rnd), st.h))
            ELSE IF valItem.kind \in RecurseKinds
            THEN \* newVal is an addressable copy; it is stored back on success only
                 LET into(r) ==
                        IF r.err # "nil"
                        THEN Res(put(Rebox(e.val, Dropped(valItem, r.val, st))), r.err, r.rnd)
                        ELSE processMapCase(put(Rebox(e.val, r.val)), i + 1, canSet,
                                            [st EXCEPT !.rnd = r.rnd])
                 IN into(processValue(valItem, e.key, TRUE, st))
            ELSE processMapCase(v, i + 1, canSet, st)

\* the slice/array case, from index i on; name is the inherited name
processSeqCase(v, i, name, canSet, st) ==
    IF i > Len(v.elems) THEN Res(v, "nil", st.rnd)
    ELSE LET el == v.elems[i]
             elemVal == Unwrap(el)
             \* v.Index(i).CanSet(): always for a slice, for an array when the
             \* array is addressable
             slotCanSet == v.kind = "slice" \/ canSet
             \* elemVal.CanSet(): lost by Elem() of an interface
             elemCanSet == slotCanSet /\ ~IsBoxed(el)
             put(x) == [v EXCEPT !.elems[i] = x]
         IN IF elemVal.kind = "string" /\ elemCanSet
            THEN LET set(r, rnd) ==
                        IF r.err THEN Res(v, "error", rnd)
                        ELSE processSeqCase(put(Str(r.s)), i + 1, name, canSet,
                                            [st EXCEPT !.rnd = rnd])
                     used(r) == set(r, Consume(st.rnd, r.used))
                 IN used(processString(elemVal.str, name, NextDraw(st.rnd), st.h))
            ELSE IF elemVal.kind \in RecurseKinds
            THEN LET into(r) ==
                        IF r.err # "nil"
                        THEN Res(put(Rebox(el, Dropped(elemVal, r.val, st))), r.err, r.rnd)
                        ELSE IF ~slotCanSet
                        THEN \* v.Index(i).Set on an unaddressable array element
                             Res(put(Rebox(el, Dropped(elemVal, r.val, st))), "panic", r.rnd)
                        ELSE processSeqCase(put(Rebox(el, r.val)), i + 1, name, canSet,
                                            [st EXCEPT !.rnd = r.rnd])
                 IN into(processValue(elemVal, name, TRUE, st))
            ELSE processSeqCase(v, i + 1, name, canSet, st)

\* a Process whose argument would be addressable
ProcessAddressable(cfg, st) == processValue(cfg, <<>>, TRUE, st)

\* Process(cfg): reflect.ValueOf(cfg) is not addressable and has no name
Process(cfg, st) == processValue(cfg, <<>>, FALSE, st)

(***************************************************************************)
(* The configuration values a caller hands to Process                      *)
(***************************************************************************)
NSecret == <<"a">> \o SufSecret
NPath == <<"a">> \o SufPath
NUser == <<"a">> \o SufUser
NURL == <<"a">> \o SufURL
NPlain == <<"n","a","m","e">>
BSecret == <<"b">> \o SufSecret
CPath == <<"c">> \o SufPath
Names == {NSecret, NPath, NUser, NURL, NPlain}

SEmpty == <<>>
STilde == <<"~","/","x">>
SUser == <<"o","k">>
SUrl == <<"s",":","/","/","h">>
LeafStrs == {SEmpty, STilde, SUser, SUrl}

HomeDir == <<"/","h">>
HomeDirs == {HomeDir, <<>>}

\* what may stand under one name: a string, bare or boxed in an interface; a
\* *string, a []string and the []interface{} a YAML decoder produces; and the
\* absent or non-string leaves
SeqStrs == {STilde, SUser}
Items ==
    UNION {{Str(s), Iface(Str(s))} : s \in LeafStrs}
    \cup UNION {{Ptr(Str(s)), Slice(<<Str(s)>>), Iface(Slice(<<Iface(Str(s))>>))}
                : s \in SeqStrs}
    \cup {Ptr(Str(SEmpty)), IntV(7), NilPtr, NilIface}

\* a struct or a map that holds one item under a name, alone or after an empty
\* secret that is visited (in declaration order) before it; a struct with an
\* unexported field; a map whose key type is interface{}
Holders ==
    UNION {{Struct("T", <<Field(Title(n), TRUE, it)>>),
            Struct("T", <<Field(Title(BSecret), TRUE, Str(SEmpty)), Field(Title(n), TRUE, it)>>),
            MapOf("string", <<Entry(n, it)>>),
            MapOf("string", <<Entry(BSecret, Iface(Str(SEmpty))), Entry(n, it)>>)}
           : n \in Names, it \in Items}
    \cup UNION {{Struct("T", <<Field(n, FALSE, Str(s))>>),
                 MapOf("interface", <<Entry(n, Iface(Str(s)))>>)}
                : n \in Names, s \in LeafStrs}

\* one more level of nesting around a value
Wraps(h) ==
    {Ptr(h), Slice(<<Iface(h)>>), Array(<<h>>),
     MapOf("string", <<Entry(NPlain, Iface(h))>>),
     Struct("W", <<Field(Title(NPlain), TRUE, h)>>)}

MaxWrap == 1

RECURSIVE Trees(_)
Trees(d) == IF d = 0 THEN Holders ELSE Trees(d - 1) \cup UNION {Wraps(h) : h \in Trees(d - 1)}

\* what a caller may hand over in place of a tree: nil, a nil pointer, a
\* pointer to an int, a pointer to a nil interface
AbsentRoots == {Invalid, NilPtr, Ptr(IntV(7)), Ptr(NilIface)}

\* a map[string]string held under a name that has a rule of its own: as a
\* field of the struct behind the root pointer, and as a value of the root map
InnerMaps ==
    {MapOf("string", <<Entry(NPlain, Str(STilde)), Entry(NPath, Str(STilde))>>),
     MapOf("string", <<Entry(NPlain, Str(SEmpty)), Entry(NUser, Str(SUser))>>)}
NamedHolders ==
    UNION {{Ptr(Struct("W", <<Field(Title(hn), TRUE, m)>>)),
            MapOf("string", <<Entry(hn, Iface(m))>>)}
           : hn \in {NSecret, NURL}, m \in InnerMaps}

\* a struct handed over by value that has string fields of its own (an
\* invalid username, an empty secret) and a map[string]string field
ByValueRoots ==
    {Struct("V", <<Field(Title(NUser), TRUE, Str(STilde)),
                   Field(Title(BSecret), TRUE, Str(SEmpty)),
                   Field(Title(NPlain), TRUE, m)>>)
        : m \in InnerMaps \cup {MapOf("string", <<Entry(NSecret, Str(SEmpty))>>),
                                MapOf("string", <<Entry(NURL, Str(SUser))>>)}}

\* a struct of three string fields, a string between an empty secret and a
\* path, by value and behind a pointer
ThreeFields ==
    UNION {{Struct("T", <<Field(Title(BSecret), TRUE, Str(SEmpty)),
                          Field(Title(n), TRUE, Str(s)),
                          Field(Title(CPath), TRUE, Str(STilde))>>),
            Ptr(Struct("T", <<Field(Title(BSecret), TRUE, Str(SEmpty)),
                              Field(Title(n), TRUE, Str(s)),
                              Field(Title(CPath), TRUE, Str(STilde))>>))}
           : n \in Names, s \in LeafStrs}

\* a []*string and a [1]*string that hold a nil, under a name: in a struct by
\* value and behind a pointer, and in a map
NilHolders ==
    UNION {{Struct("T", <<Field(Title(n), TRUE, it)>>),
            Ptr(Struct("T", <<Field(Title(n), TRUE, it)>>)),
            MapOf("string", <<Entry(n, it)>>)}
           : n \in Names, it \in {Slice(<<NilPtr, Ptr(Str(STilde))>>), Array(<<NilPtr>>)}}

InputTrees ==
    Trees(MaxWrap) \cup AbsentRoots \cup NamedHolders \cup ByValueRoots
    \cup ThreeFields \cup NilHolders

\* the values directly inside a value
Kids(v) ==
    CASE v.kind = "struct" -> [i \in 1..Len(v.fields) |-> v.fields[i].val]
      [] v.kind = "map" -> [i \in 1..Len(v.entries) |-> v.entries[i].val]
      [] v.kind \in {"slice", "array"} -> v.elems
      [] v.kind \in {"ptr", "interface"} -> v.elem
      [] OTHER -> <<>>

\* A string leaf of a value with the name that governs it: its struct field
\* name, its map key, or for a sequence element the name of the enclosing field
\* or key.  plain: the path to the leaf uses only exported fields, string-keyed
\* maps, slices, pointers and interfaces.  seq: the leaf is a sequence element.
\* copied: the leaf's storage belongs to a struct or array that is held by
\* value in a map or a sequence (nothing shared lies in between).
Leaf(n, s, plain, seq, copied) ==
    [gname |-> n, str |-> s, plain |-> plain, seq |-> seq, copied |-> copied]

RECURSIVE LeavesOf(_, _, _, _, _, _)
RECURSIVE LeavesOfKids(_, _, _, _, _, _)
\* the string leaves of v in structural order; inColl: v is directly (or boxed)
\* a map value or a sequence element
LeavesOf(v, name, plain, seq, copied, inColl) ==
    CASE v.kind = "string" -> <<Leaf(name, v.str, plain, seq, copied)>>
      [] v.kind = "struct" -> LeavesOfKids(v, 1, name, plain, copied \/ inColl, FALSE)
      [] v.kind = "array" -> LeavesOfKids(v, 1, name, FALSE, copied \/ inColl, FALSE)
      [] v.kind \in {"map", "slice"} -> LeavesOfKids(v, 1, name, plain, FALSE, TRUE)
      [] v.kind = "ptr" ->
            IF v.isnil THEN <<>> ELSE LeavesOf(v.elem[1], name, plain, seq, FALSE, FALSE)
      [] v.kind = "interface" ->
            IF v.isnil THEN <<>> ELSE LeavesOf(v.elem[1], name, plain, seq, copied, inColl)
      [] OTHER -> <<>>

\* the leaves of the children of container v from child i on
LeavesOfKids(v, i, name, plain, copied, inColl) ==
    IF i > Len(Kids(v)) THEN <<>>
    ELSE LET kid == Kids(v)[i]
             here ==
                CASE v.kind = "struct" ->
                        LeavesOf(kid, v.fields[i].name, plain /\ v.fields[i].exported,
                                 FALSE, copied, FALSE)
                  [] v.kind = "map" ->
                        LeavesOf(kid, v.entries[i].key, plain /\ v.keykind = "string",
                                 FALSE, FALSE, TRUE)
                  [] v.kind = "slice" -> LeavesOf(kid, name, plain, TRUE, FALSE, TRUE)
                  [] OTHER -> LeavesOf(kid, name, plain, TRUE, copied, TRUE)
         IN here \o LeavesOfKids(v, i + 1, name, plain, copied, inColl)

\* the leaves of a value handed to Process
Leaves(v) == LeavesOf(v, <<>>, TRUE, FALSE, FALSE, FALSE)

RECURSIVE HasWideMap(_)
\* some map in the value has more than one key
HasWideMap(v) ==
    \/ v.kind = "map" /\ Len(v.entries) > 1
    \/ \E i \in 1..Len(Kids(v)) : HasWideMap(Kids(v)[i])

\* The environment of one call: two entropy draws (the second repeats), the map
\* iteration order, and $HOME.  A call on v observes a draw only for an empty
\* string under a Secret name, the order only in a map of several keys, and
\* $HOME only for a string with a leading ~ under a Path name: environments
\* that differ in nothing the call can observe are drawn once.
EnvsOf(v) ==
    LET ls == Leaves(v)
        empties == Cardinality({i \in 1..Len(ls) :
                        ls[i].str = <<>> /\ HasSuffix(ls[i].gname, SufSecret)})
        tilde == \E i \in 1..Len(ls) :
                        HasPrefix(ls[i].str, <<"~">>) /\ HasSuffix(ls[i].gname, SufPath)
        firsts == IF empties >= 1 THEN EntropyDraws ELSE {1}
        seconds == IF empties >= 2 THEN EntropyDraws ELSE {1}
    IN [rnd : {<<a, b>> : a \in firsts, b \in seconds},
        rev : IF HasWideMap(v) THEN BOOLEAN ELSE {FALSE},
        h : IF tilde THEN HomeDirs ELSE {HomeDir},
        keep : {FALSE}]

NoDisk == [exists |-> FALSE, doc |-> <<>>]
NoArgs == [op |-> "none"]

(***************************************************************************)
(* Spec: a caller builds a value and calls Process on it, again and again  *)
(***************************************************************************)
Init ==
    /\ tree \in InputTrees
    /\ err = "none"
    /\ prev = tree
    /\ last = "none"
    /\ home = HomeDir
    /\ disk = NoDisk
    /\ ret = Invalid
    /\ wrote = FALSE
    /\ src = Invalid
    /\ dst = Invalid
    /\ args = NoArgs

\* err := Process(cfg), under some environment; a panic ends the program
ProcessStep ==
    /\ err # "panic"
    /\ \E env \in EnvsOf(tree) :
         LET returned(r) == tree' = r.val /\ err' = r.err IN
         /\ returned(Process(tree, env))
         /\ prev' = tree
         /\ last' = "Process"
         /\ home' = env.h
         /\ args' = [op |-> "Process", env |-> env]
    /\ UNCHANGED <<disk, ret, wrote, src, dst>>

Next == ProcessStep

Spec == Init /\ [][Next]_vars

(***************************************************************************)
(* Properties of Process                                                   *)
(***************************************************************************)
\* the postcondition of the rule that a leaf's governing name selects
RulePost(l) ==
    IF HasSuffix(l.gname, SufSecret) THEN l.str # <<>>
    ELSE IF HasSuffix(l.gname, SufPath) THEN ~HasPrefix(l.str, <<"~">>)
    ELSE IF HasSuffix(l.gname, SufUser) THEN l.str = <<>> \/ UsernameMatch(l.str)
    ELSE IF HasSuffix(l.gname, SufURL) THEN l.str = <<>> \/ ~ValidateURL(l.str)
    ELSE TRUE

\* a non-empty value that the User or URL rule rejects
RuleRejects(l) ==
    /\ l.str # <<>>
    /\ \/ HasSuffix(l.gname, SufUser) /\ ~UsernameMatch(l.str)
       \/ HasSuffix(l.gname, SufURL) /\ ValidateURL(l.str)

\* the root is a pointer, a map or a slice (not a struct or array by value)
PlainRoot(v) == v.kind \in {"ptr", "map", "slice"}

IsHex64(s) ==
    /\ Len(s) = 2 * SecretBytes
    /\ \A i \in 1..Len(s) : s[i] \in Digits \cup {"a", "b", "c", "d", "e", "f"}

\* C1 (as claimed): traversal completeness.  Whenever Process returned nil on a
\* tree built from struct pointers, string-keyed maps, slices, pointers and
\* interface-boxed values, every string leaf whose governing name ends in
\* Secret, Path, User or URL satisfies that rule's postcondition.
C1_TraversalComplete ==
    (last = "Process" /\ err = "nil" /\ PlainRoot(prev)) =>
        \A i \in 1..Len(Leaves(tree)) :
            Leaves(tree)[i].plain => RulePost(Leaves(tree)[i])

\* C2 (as claimed): fail-fast validation.  Whenever the tree handed to Process
\* held, anywhere, a non-empty invalid value under a name ending in User or
\* URL, Process returned a non-nil error.
C2_FailFast ==
    last = "Process" =>
        ((\E i \in 1..Len(Leaves(prev)) :
              Leaves(prev)[i].plain /\ RuleRejects(Leaves(prev)[i]))
         => err # "nil")

\* C3 (as claimed): sequence elements inherit the container's name.  Every
\* string element of a sequence under a name N, statically typed or boxed in an
\* interface, is put through the rule of N: an invalid one makes Process fail,
\* and after a nil return each element satisfies the rule's postcondition.
C3_SeqInherit ==
    (last = "Process" /\ PlainRoot(prev)) =>
        \A i \in 1..Len(Leaves(prev)) :
            (Leaves(prev)[i].seq /\ Leaves(prev)[i].plain) =>
                /\ RuleRejects(Leaves(prev)[i]) => err # "nil"
                /\ err = "nil" => RulePost(Leaves(tree)[i])

\* the string fields of a struct behind the root pointer and the string values
\* of a root map: positions (in Leaves) of leaves Process reaches directly
DirectLeaves(v) ==
    IF v.kind = "ptr" /\ ~v.isnil /\ v.elem[1].kind = "struct"
    THEN LET st == v.elem[1] IN
         IF \A k \in 1..Len(st.fields) : st.fields[k].val.kind = "string"
         THEN {k \in 1..Len(st.fields) : st.fields[k].exported}
         ELSE {}
    ELSE IF v.kind = "map" /\ v.keykind = "string"
            /\ \A k \in 1..Len(v.entries) : Unwrap(v.entries[k].val).kind = "string"
    THEN 1..Len(v.entries)
    ELSE {}

KeptLeaves == Leaves(Process(prev, [args.env EXCEPT !.keep = TRUE]).val)

\* C8 (as claimed): no rollback on abort.  When Process returned an error, the
\* caller's tree holds every mutation applied before the failing leaf, also
\* inside structs stored by value as map values or slice elements.
C8_NoRollback ==
    (last = "Process" /\ err = "error") =>
        \A i \in 1..Len(Leaves(tree)) : Leaves(tree)[i].str = KeptLeaves[i].str

\* C8 (amended): when Process returned an error, every leaf that is not inside
\* a struct or array held by value in a map or a sequence holds the value it had
\* when the traversal stopped; a leaf inside such a by-value struct or array
\* holds either that value or, when the copy it was processed on was dropped,
\* its original value.
C8_NoRollbackShared ==
    (last = "Process" /\ err = "error") =>
        \A i \in 1..Len(Leaves(tree)) :
            /\ ~Leaves(tree)[i].copied => Leaves(tree)[i].str = KeptLeaves[i].str
            /\ Leaves(tree)[i].copied =>
                   Leaves(tree)[i].str \in {KeptLeaves[i].str, Leaves(prev)[i].str}

\* C8 witness: Process returned an error after it had generated a secret in a
\* leaf that is not inside a by-value copy, and the caller sees that secret.
C8_Witness ==
    /\ last = "Process" /\ err = "error"
    /\ \E i \in 1..Len(Leaves(tree)) :
          /\ ~Leaves(tree)[i].copied
          /\ Leaves(prev)[i].str = <<>>
          /\ IsHex64(Leaves(tree)[i].str)

RECURSIVE HasForeignMap(_)
\* the value contains a map whose key type is not string
HasForeignMap(v) ==
    \/ v.kind = "map" /\ v.keykind # "string"
    \/ \E i \in 1..Len(Kids(v)) : HasForeignMap(Kids(v)[i])

\* C14 (as claimed): an unsupported map shape is a fatal structural error.
\* Whenever the tree handed to Process contains a map whose key type is not
\* string, Process returns a non-nil error.
C14_ForeignMapFatal ==
    (last = "Process" /\ HasForeignMap(prev)) => err # "nil"

\* a nil pointer or a nil interface
IsAbsent(v) == v.kind \in {"ptr", "interface"} /\ v.isnil

\* what Process may be handed in place of a tree: nil, a nil pointer, or a
\* pointer to a nil interface or to a non-string scalar
AbsentRoot(v) ==
    \/ v.kind = "invalid"
    \/ IsAbsent(v)
    \/ v.kind = "ptr" /\ (IsAbsent(v.elem[1]) \/ v.elem[1].kind = "int")

RECURSIVE Blank(_)
\* the value with a non-string scalar in the place of every nil pointer and
\* nil interface inside it
Blank(v) ==
    CASE v.kind = "struct" ->
            Struct(v.tname, [i \in 1..Len(v.fields) |->
                       Field(v.fields[i].name, v.fields[i].exported, Blank(v.fields[i].val))])
      [] v.kind = "map" ->
            MapOf(v.keykind, [i \in 1..Len(v.entries) |->
                       Entry(v.entries[i].key, Blank(v.entries[i].val))])
      [] v.kind \in {"slice", "array"} ->
            [v EXCEPT !.elems = [i \in 1..Len(v.elems) |-> Blank(v.elems[i])]]
      [] v.kind \in {"ptr", "interface"} ->
            IF v.isnil THEN IntV(0) ELSE [v EXCEPT !.elem = <<Blank(v.elem[1])>>]
      [] OTHER -> v

RECURSIVE Nils(_)
\* the number of nil pointers and nil interfaces inside a value
Nils(v) ==
    IF IsAbsent(v) THEN 1
    ELSE LET RECURSIVE sum(_)
             sum(i) == IF i > Len(Kids(v)) THEN 0 ELSE Nils(Kids(v)[i]) + sum(i + 1)
         IN sum(1)

\* C23 (as claimed): absent values are a successful no-op.  Process returns nil
\* and changes nothing when it is given nil, a nil pointer, or a pointer to a
\* nil interface or to a non-string scalar; and a nil pointer or nil interface
\* met inside the tree is left as it is and has no effect on the call: the
\* outcome and every other part of the tree are what they are for the same
\* tree with a non-string scalar in the place of each nil.
C23_AbsentNoOp ==
    last = "Process" =>
        /\ AbsentRoot(prev) => (err = "nil" /\ tree = prev)
        /\ (~AbsentRoot(prev) /\ Nils(prev) > 0) =>
               LET same(r) == /\ err = r.err
                              /\ Blank(tree) = r.val
                              /\ Nils(tree) = Nils(prev)
               IN same(Process(Blank(prev), args.env))

\* the rule of a name can fail on s: no entropy for an empty secret, no home
\* directory for a path, a username or URL that does not validate
MayFail(name, s, h) ==
    IF HasSuffix(name, SufSecret) THEN s = <<>>
    ELSE IF HasSuffix(name, SufPath) THEN s # <<>> /\ ExpandPath(s, h).err
    ELSE IF HasSuffix(name, SufUser) THEN s # <<>> /\ ValidateUsername(s)
    ELSE IF HasSuffix(name, SufURL) THEN s # <<>> /\ ValidateURL(s)
    ELSE FALSE

\* t is a processed value of s under a name: a generated secret for an empty
\* secret, the expansion of a path, and s itself otherwise, validated under a
\* User or URL name
Processed(name, s, h, t) ==
    IF HasSuffix(name, SufSecret) THEN IF s = <<>> THEN IsHex64(t) ELSE t = s
    ELSE IF HasSuffix(name, SufPath)
    THEN IF s = <<>> THEN t = s ELSE ExpandPath(s, h) = [s |-> t, err |-> FALSE]
    ELSE t = s /\ ~MayFail(name, s, h)

\* a pointer to a struct whose fields are all exported strings
StringStruct(v) ==
    /\ v.kind = "ptr" /\ ~v.isnil /\ v.elem[1].kind = "struct"
    /\ \A k \in 1..Len(v.elem[1].fields) :
          v.elem[1].fields[k].exported /\ v.elem[1].fields[k].val.kind = "string"

\* fields gs are what processing fields fs in declaration order leaves when
\* the rule of field i fails (i beyond the last field: no rule fails)
StoppedAt(fs, gs, i, h) ==
    /\ i <= Len(fs) => MayFail(fs[i].name, fs[i].val.str, h)
    /\ \A j \in 1..Len(fs) :
          IF j < i THEN Processed(fs[j].name, fs[j].val.str, h, gs[j].val.str)
          ELSE gs[j] = fs[j]

RECURSIVE MapsByOwnKey(_, _, _)
\* p before and t after a successful call: every string-keyed map inside p
\* has the same keys in t, and each of its string values, bare or boxed, holds
\* the processed value under its own key
MapsByOwnKey(p, t, h) ==
    /\ t.kind = p.kind
    /\ Len(Kids(t)) = Len(Kids(p))
    /\ (p.kind = "map" /\ p.keykind = "string") =>
           \A i \in 1..Len(p.entries) :
               /\ t.entries[i].key = p.entries[i].key
               /\ Unwrap(p.entries[i].val).kind = "string" =>
                      /\ IsBoxed(t.entries[i].val) = IsBoxed(p.entries[i].val)
                      /\ Unwrap(t.entries[i].val).kind = "string"
                      /\ Processed(p.entries[i].key, Unwrap(p.entries[i].val).str, h,
                                   Unwrap(t.entries[i].val).str)
    /\ \A i \in 1..Len(Kids(p)) : MapsByOwnKey(Kids(p)[i], Kids(t)[i], h)

\* the value holds a string-keyed map under a name with a rule of its own
HeldUnderRule(v) == v \in NamedHolders

\* C25: map values are classified by their own key.  After a nil return every
\* string-keyed map of the tree has the keys it had, and each of its string
\* values holds the value the rule of its own key gives.  In every call, a
\* string leaf changes only to the processed value under its governing name
\* (for a map value its own key, for what a map value contains the key
\* inherited from it), never under the name of what holds the map, and an
\* error comes only from a leaf whose governing name has a rule that can fail.
C25_MapOwnKey ==
    last = "Process" =>
        LET byName(ps, ts) ==
                /\ Len(ts) = Len(ps)
                /\ \A i \in 1..Len(ps) :
                      \/ ts[i].str = ps[i].str
                      \/ Processed(ps[i].gname, ps[i].str, args.env.h, ts[i].str)
                /\ err = "error" =>
                      \E i \in 1..Len(ps) : MayFail(ps[i].gname, ps[i].str, args.env.h)
        IN /\ err = "nil" => MapsByOwnKey(prev, tree, args.env.h)
           /\ byName(Leaves(prev), Leaves(tree))

\* C25 witness: a map held under a name ending in URL or Secret was processed:
\* the value under its key ending in Path was expanded, and the value under a
\* key without a rule, which the holder's rule would have rejected or
\* replaced, is as it was.
C25_Witness ==
    /\ last = "Process" /\ err = "nil" /\ HeldUnderRule(prev)
    /\ \E i, j \in 1..Len(Leaves(prev)) :
          /\ Leaves(prev)[i].gname = NPath
          /\ HasPrefix(Leaves(prev)[i].str, <<"~">>)
          /\ ~HasPrefix(Leaves(tree)[i].str, <<"~">>)
          /\ Leaves(prev)[j].gname = NPlain
          /\ Leaves(tree)[j].str = Leaves(prev)[j].str

RECURSIVE Skeleton(_)
\* a value without the text of its strings: its kinds, struct fields, map
\* keys, sequence lengths and orders, pointers, boxes and non-string scalars
Skeleton(v) ==
    CASE v.kind = "string" -> Str(<<>>)
      [] v.kind = "struct" ->
            Struct(v.tname, [i \in 1..Len(v.fields) |->
                       Field(v.fields[i].name, v.fields[i].exported,
                             Skeleton(v.fields[i].val))])
      [] v.kind = "map" ->
            MapOf(v.keykind, [i \in 1..Len(v.entries) |->
                       Entry(v.entries[i].key, Skeleton(v.entries[i].val))])
      [] v.kind \in {"slice", "array"} ->
            [v EXCEPT !.elems = [i \in 1..Len(v.elems) |-> Skeleton(v.elems[i])]]
      [] v.kind \in {"ptr", "interface"} ->
            IF v.isnil THEN v ELSE [v EXCEPT !.elem = <<Skeleton(v.elem[1])>>]
      [] OTHER -> v

RECURSIVE HiddenSame(_, _)
\* every unexported struct field inside p holds in t what it holds in p
HiddenSame(p, t) ==
    /\ p.kind = "struct" =>
           \A i \in 1..Len(p.fields) : ~p.fields[i].exported => t.fields[i] = p.fields[i]
    /\ \A i \in 1..Len(Kids(p)) : HiddenSame(Kids(p)[i], Kids(t)[i])

\* C29: the frame of Process.  Whatever a call returns, the tree keeps its
\* shape (map keys, sequence lengths and orders, non-string scalars, nil and
\* non-nil pointers and interfaces), every unexported struct field keeps its
\* value, and a string leaf differs from what it was only when its governing
\* name ends in Secret and it was empty, or its governing name ends in Path
\* and it started with ~.
C29_Frame ==
    last = "Process" =>
        LET framed(ps, ts) ==
                \A i \in 1..Len(ps) :
                    ts[i].str # ps[i].str =>
                        \/ HasSuffix(ps[i].gname, SufSecret) /\ ps[i].str = <<>>
                        \/ HasSuffix(ps[i].gname, SufPath) /\ HasPrefix(ps[i].str, <<"~">>)
        IN /\ Skeleton(tree) = Skeleton(prev)
           /\ HiddenSame(prev, tree)
           /\ framed(Leaves(prev), Leaves(tree))

\* C29 witness: one call generated a secret and expanded a path, and left a
\* string starting with ~ under a name without a rule as it was.
C29_Witness ==
    /\ last = "Process" /\ err = "nil"
    /\ \E i, j, k \in 1..Len(Leaves(prev)) :
          /\ HasSuffix(Leaves(prev)[i].gname, SufSecret)
          /\ Leaves(tree)[i].str # Leaves(prev)[i].str
          /\ HasSuffix(Leaves(prev)[j].gname, SufPath)
          /\ Leaves(tree)[j].str # Leaves(prev)[j].str
          /\ Leaves(prev)[k].gname = Title(NPlain)
          /\ HasPrefix(Leaves(prev)[k].str, <<"~">>)
          /\ Leaves(tree)[k].str = Leaves(prev)[k].str

\* the positions of the string fields of a struct
OwnStrings(v) == {i \in 1..Len(v.fields) : v.fields[i].val.kind = "string"}

\* inside a field of struct v that is not a string, some leaf's rule can fail
InnerFails(v, h) ==
    \E i \in (1..Len(v.fields)) \ OwnStrings(v) :
        LET fails(ls) == \E k \in 1..Len(ls) : MayFail(ls[k].gname, ls[k].str, h)
        IN fails(LeavesOf(v.fields[i].val, v.fields[i].name, TRUE, FALSE, FALSE, FALSE))

\* C30: Process on a struct passed by value neither modifies nor validates the
\* struct's own string fields.  Every string field of the struct is as it was
\* (an empty Secret-named field stays empty); an error comes only from inside
\* a field that is not a string, never from an invalid User- or URL-named
\* field of the struct; and after a nil return the string values of the
\* struct's map-typed fields hold their processed values.
C30_ByValueStruct ==
    (last = "Process" /\ prev.kind = "struct") =>
        /\ tree.kind = "struct" /\ Len(tree.fields) = Len(prev.fields)
        /\ \A i \in OwnStrings(prev) : tree.fields[i] = prev.fields[i]
        /\ err = "error" => InnerFails(prev, args.env.h)
        /\ err = "nil" =>
              \A i \in 1..Len(prev.fields) :
                  (prev.fields[i].exported /\ prev.fields[i].val.kind = "map") =>
                      MapsByOwnKey(prev.fields[i].val, tree.fields[i].val, args.env.h)

\* C30 witness: Process returned nil on a struct passed by value whose User
\* field holds an invalid name and whose Secret field is empty, left both as
\* they were, and expanded the path in the struct's map field.
C30_Witness ==
    /\ last = "Process" /\ err = "nil" /\ prev \in ByValueRoots
    /\ ValidateUsername(prev.fields[1].val.str)
    /\ tree.fields[1] = prev.fields[1]
    /\ tree.fields[2].val.str = <<>>
    /\ \E k \in 1..Len(prev.fields[3].val.entries) :
          /\ prev.fields[3].val.entries[k] = Entry(NPath, Str(STilde))
          /\ tree.fields[3].val.entries[k] = Entry(NPath, Str(HomeDir \o <<"/", "x">>))

(***************************************************************************)
(* gopkg.in/yaml.v2 as config.go uses it: Marshal and Unmarshal            *)
(***************************************************************************)
BoolV(b) == [kind |-> "bool", b |-> b]
FloatV(text) == [kind |-> "float", text |-> text]

\* a YAML document: scalars (with the style they were written in), mappings
\* in document order, sequences
YScalar(text, quoted) == [kind |-> "scalar", text |-> text, quoted |-> quoted]
YPair(k, n) == [key |-> k, node |-> n]
YMapping(pairs) == [kind |-> "mapping", pairs |-> pairs]
YSequence(items) == [kind |-> "sequence", items |-> items]

YNulls == {<<>>, <<"~">>, <<"n","u","l","l">>, <<"N","u","l","l">>, <<"N","U","L","L">>}
YTrues ==
    {<<"y">>, <<"Y">>, <<"y","e","s">>, <<"Y","e","s">>, <<"Y","E","S">>,
     <<"o","n">>, <<"O","n">>, <<"O","N">>,
     <<"t","r","u","e">>, <<"T","r","u","e">>, <<"T","R","U","E">>}
YFalses ==
    {<<"n">>, <<"N">>, <<"n","o">>, <<"N","o">>, <<"N","O">>,
     <<"o","f","f">>, <<"O","f","f">>, <<"O","F","F">>,
     <<"f","a","l","s","e">>, <<"F","a","l","s","e">>, <<"F","A","L","S","E">>}

IsDigits(s) == s # <<>> /\ \A i \in 1..Len(s) : s[i] \in Digits
Unsigned(s) == IF s # <<>> /\ s[1] \in {"-", "+"} THEN Tail(s) ELSE s
\* the longest decimal text strconv.ParseInt certainly accepts in 64 bits
Int64Digits == 18
\* yamlStyleFloat: [-+]?(\.[0-9]+|[0-9]+(\.[0-9]*)?)([eE][-+]?[0-9]+)?
IsMantissa(m) ==
    LET dot == IndexOf(m, ".") IN
    IF dot = 0 THEN IsDigits(m)
    ELSE IF dot = 1 THEN IsDigits(Tail(m))
    ELSE /\ IsDigits(SubSeq(m, 1, dot - 1))
         /\ From(m, dot) = <<>> \/ IsDigits(From(m, dot))
IsFloat(s) ==
    LET u == Unsigned(s)
        e == IF IndexOf(u, "e") # 0 THEN IndexOf(u, "e") ELSE IndexOf(u, "E")
    IN IF e = 0 THEN IsMantissa(u)
       ELSE IsMantissa(SubSeq(u, 1, e - 1)) /\ IsDigits(Unsigned(From(u, e)))

\* resolve: the type a plain (unquoted) scalar is read as
Resolve(text) ==
    IF text \in YNulls THEN "null"
    ELSE IF text \in YTrues \cup YFalses THEN "bool"
    ELSE IF IsDigits(Unsigned(text)) /\ Len(Unsigned(text)) <= Int64Digits THEN "int"
    ELSE IF IsFloat(text) THEN "float"
    ELSE "str"

DigitSeq == <<"0","1","2","3","4","5","6","7","8","9">>
RECURSIVE IntText(_)
\* strconv.Itoa for n >= 0
IntText(n) == IF n < 10 THEN <<DigitSeq[n + 1]>> ELSE IntText(n \div 10) \o <<DigitSeq[(n % 10) + 1]>>
RECURSIVE AtoI(_)
\* strconv.Atoi of a digit string
AtoI(s) ==
    IF s = <<>> THEN 0
    ELSE AtoI(SubSeq(s, 1, Len(s) - 1)) * 10
         + (CHOOSE d \in 0..9 : DigitSeq[d + 1] = s[Len(s)])

\* the characters of the model in code-point order
CodeOrder ==
    <<"+","-",".","/","0","1","2","3","4","5","6","7","8","9",":",
      "A","B","C","D","E","F","G","H","I","J","K","L","M",
      "N","O","P","Q","R","S","T","U","V","W","X","Y","Z","_",
      "a","b","c","d","e","f","g","h","i","j","k","l","m",
      "n","o","p","q","r","s","t","u","v","w","x","y","z","~">>
CharRank(c) == CHOOSE i \in 1..Len(CodeOrder) : CodeOrder[i] = c
IsLetter(c) == c \in LowerLetters \cup UpperLetters

\* keyList.Less on string keys: at the first differing character letters sort
\* after non-letters, otherwise by code point; a prefix sorts first
KeyLess(a, b) ==
    LET n == IF Len(a) < Len(b) THEN Len(a) ELSE Len(b)
        diff == {i \in 1..n : a[i] # b[i]}
    IN IF diff = {} THEN Len(a) < Len(b)
       ELSE LET i == CHOOSE j \in diff : \A k \in diff : j <= k IN
            IF IsLetter(a[i]) # IsLetter(b[i]) THEN IsLetter(b[i])
            ELSE CharRank(a[i]) < CharRank(b[i])

RECURSIVE SortPairs(_)
\* sort.Sort(keyList) over the pairs of a mapping
SortPairs(pairs) ==
    IF pairs = <<>> THEN <<>>
    ELSE LET m == CHOOSE i \in 1..Len(pairs) :
                      \A j \in 1..Len(pairs) : ~KeyLess(pairs[j].key, pairs[i].key)
         IN <<pairs[m]>> \o
            SortPairs([j \in 1..(Len(pairs) - 1) |-> IF j < m THEN pairs[j] ELSE pairs[j + 1]])

RECURSIVE FieldPairs(_, _)
RECURSIVE Marshal(_)
\* yaml.Marshal: a struct writes its exported fields under their lower-cased
\* names, a map writes its keys sorted, a string is quoted when a plain scalar
\* of the same text would be read as something else
Marshal(v) ==
    CASE v.kind = "string" -> YScalar(v.str, Resolve(v.str) # "str")
      [] v.kind = "int" -> YScalar(IntText(v.num), FALSE)
      [] v.kind = "float" -> YScalar(v.text, FALSE)
      [] v.kind = "bool" ->
            YScalar(IF v.b THEN <<"t","r","u","e">> ELSE <<"f","a","l","s","e">>, FALSE)
      [] v.kind = "struct" -> YMapping(FieldPairs(v.fields, 1))
      [] v.kind = "map" ->
            YMapping(SortPairs([i \in 1..Len(v.entries) |->
                                   YPair(v.entries[i].key, Marshal(v.entries[i].val))]))
      [] v.kind \in {"slice", "array"} ->
            YSequence([i \in 1..Len(v.elems) |-> Marshal(v.elems[i])])
      [] v.kind \in {"ptr", "interface"} ->
            IF v.isnil THEN YScalar(<<"n","u","l","l">>, FALSE) ELSE Marshal(v.elem[1])
      [] OTHER -> YScalar(<<"n","u","l","l">>, FALSE)

\* the pairs of a struct from field i on
FieldPairs(fields, i) ==
    IF i > Len(fields) THEN <<>>
    ELSE (IF fields[i].exported
          THEN <<YPair(ToLower(fields[i].name), Marshal(fields[i].val))>>
          ELSE <<>>) \o FieldPairs(fields, i + 1)

RECURSIVE DecodeAny(_)
\* decoding into interface{}: a scalar by its resolved type, a mapping as
\* map[interface{}]interface{}, a sequence as []interface{}
DecodeAny(node) ==
    CASE node.kind = "scalar" ->
            IF node.quoted THEN Iface(Str(node.text))
            ELSE LET t == Resolve(node.text) IN
                 CASE t = "null" -> NilIface
                   [] t = "bool" -> Iface(BoolV(node.text \in YTrues))
                   [] t = "int" ->
                        Iface(IntV(IF node.text[1] = "-" THEN 0 - AtoI(Tail(node.text))
                                   ELSE AtoI(Unsigned(node.text))))
                   [] t = "float" -> Iface(FloatV(node.text))
                   [] OTHER -> Iface(Str(node.text))
      [] node.kind = "mapping" ->
            Iface(MapOf("interface",
                        [i \in 1..Len(node.pairs) |->
                            Entry(node.pairs[i].key, DecodeAny(node.pairs[i].node))]))
      [] OTHER ->
            Iface(Slice([i \in 1..Len(node.items) |-> DecodeAny(node.items[i])]))

\* the zero value of the type of v
RECURSIVE ZeroOf(_)
ZeroOf(v) ==
    CASE v.kind = "string" -> Str(<<>>)
      [] v.kind = "int" -> IntV(0)
      [] v.kind = "struct" ->
            Struct(v.tname, [i \in 1..Len(v.fields) |->
                                Field(v.fields[i].name, v.fields[i].exported,
                                      ZeroOf(v.fields[i].val))])
      [] v.kind = "map" -> MapOf(v.keykind, <<>>)
      [] v.kind = "slice" -> Slice(<<>>)
      [] v.kind = "array" -> Array([i \in 1..Len(v.elems) |-> ZeroOf(v.elems[i])])
      [] v.kind = "ptr" -> NilPtr
      [] v.kind = "interface" -> NilIface
      [] OTHER -> v

IsNullNode(node) == node.kind = "scalar" /\ ~node.quoted /\ Resolve(node.text) = "null"

RECURSIVE DecodeInto(_, _)
\* decoding a node into a slot that holds out (the slot's type is out's):
\* [val, err]; a node that does not fit the type is reported and skipped
DecodeInto(node, out) ==
    IF IsNullNode(node) THEN [val |-> ZeroOf(out), err |-> FALSE]
    ELSE
    CASE out.kind = "interface" -> [val |-> DecodeAny(node), err |-> FALSE]
      [] out.kind = "string" ->
            IF node.kind = "scalar" THEN [val |-> Str(node.text), err |-> FALSE]
            ELSE [val |-> out, err |-> TRUE]
      [] out.kind = "struct" ->
            IF node.kind # "mapping" THEN [val |-> out, err |-> TRUE]
            ELSE LET hit(i) == {k \in 1..Len(node.pairs) :
                                   node.pairs[k].key = ToLower(out.fields[i].name)}
                     dec(i) == DecodeInto(node.pairs[CHOOSE k \in hit(i) : TRUE].node,
                                          out.fields[i].val)
                     set(i) == out.fields[i].exported /\ hit(i) # {}
                 IN [val |-> Struct(out.tname,
                                    [i \in 1..Len(out.fields) |->
                                        IF set(i)
                                        THEN Field(out.fields[i].name, TRUE, dec(i).val)
                                        ELSE out.fields[i]]),
                     err |-> \E i \in 1..Len(out.fields) : set(i) /\ dec(i).err]
      [] out.kind = "map" ->
            \* map[string]interface{}
            IF node.kind # "mapping" THEN [val |-> out, err |-> TRUE]
            ELSE [val |-> MapOf(out.keykind,
                                [i \in 1..Len(node.pairs) |->
                                    Entry(node.pairs[i].key, DecodeAny(node.pairs[i].node))]),
                  err |-> FALSE]
      [] out.kind = "int" ->
            IF node.kind = "scalar" /\ ~node.quoted /\ Resolve(node.text) = "int"
            THEN [val |-> Unwrap(DecodeAny(node)), err |-> FALSE]
            ELSE [val |-> out, err |-> TRUE]
      [] OTHER -> [val |-> out, err |-> TRUE]

\* yaml.Unmarshal(data, &cfg) with cfg the zero value of the type of like
Unmarshal(doc, like) == DecodeInto(doc, ZeroOf(like))

(***************************************************************************)
(* config.go: Load, Save; cmd/main.go: saveCmd                             *)
(***************************************************************************)
\* the path every caller passes: the one config file, under $HOME
YamlPath == <<"~","/","c">>

\* a Save whose write is lost: it reports success and leaves the disk alone
SaveDropsWrite(yamlPath, cfg, h, dsk) == [err |-> FALSE, disk |-> dsk, wrote |-> FALSE]

\* Save(yamlPath, cfg): [err, disk, wrote]
Save(yamlPath, cfg, h, dsk) ==
    IF ExpandPath(yamlPath, h).err THEN [err |-> TRUE, disk |-> dsk, wrote |-> FALSE]
    ELSE [err |-> FALSE, disk |-> [exists |-> TRUE, doc |-> Marshal(cfg)], wrote |-> TRUE]

\* ret: the returned configuration; perr: what Process returned ("none" when
\* it was not reached); branch: which half of Load ran
LoadRes(cfg, e, dsk, w, branch, perr, rnd) ==
    [ret |-> cfg, err |-> e, disk |-> dsk, wrote |-> w, branch |-> branch,
     perr |-> perr, rnd |-> rnd]

\* a Load that saves the default before looking at what Process returned
LoadSavesFirst(yamlPath, defaultConfig, st, dsk) ==
    LET saved(r, sv) ==
            LoadRes(r.val.elem[1],
                    IF r.err # "nil" THEN r.err ELSE IF sv.err THEN "error" ELSE "nil",
                    sv.disk, sv.wrote, "missing", r.err, r.rnd)
        missing(p, r) == saved(r, Save(p.s, r.val.elem[1], st.h, dsk))
        processed(r) ==
            IF r.err # "nil"
            THEN LoadRes(defaultConfig, r.err, dsk, FALSE, "existing", r.err, r.rnd)
            ELSE LoadRes(r.val.elem[1], "nil", dsk, FALSE, "existing", "nil", r.rnd)
        existing(u) ==
            IF u.err
            THEN LoadRes(defaultConfig, "error", dsk, FALSE, "existing", "none", st.rnd)
            ELSE processed(Process(Ptr(u.val), st))
        expanded(p) ==
            IF p.err THEN LoadRes(defaultConfig, "error", dsk, FALSE, "none", "none", st.rnd)
            ELSE IF ~dsk.exists THEN missing(p, Process(Ptr(defaultConfig), st))
            ELSE existing(Unmarshal(dsk.doc, defaultConfig))
    IN expanded(ExpandPath(yamlPath, st.h))

\* a Load that writes the processed tree back when the file exists
LoadWritesBack(yamlPath, defaultConfig, st, dsk) ==
    LET saved(r, sv, branch) ==
            LoadRes(r.val.elem[1], IF sv.err THEN "error" ELSE "nil", sv.disk, sv.wrote,
                    branch, "nil", r.rnd)
        missing(p, r) ==
            IF r.err # "nil"
            THEN LoadRes(r.val.elem[1], r.err, dsk, FALSE, "missing", r.err, r.rnd)
            ELSE saved(r, Save(p.s, r.val.elem[1], st.h, dsk), "missing")
        processed(p, r) ==
            IF r.err # "nil"
            THEN LoadRes(defaultConfig, r.err, dsk, FALSE, "existing", r.err, r.rnd)
            ELSE saved(r, Save(p.s, r.val.elem[1], st.h, dsk), "existing")
        existing(p, u) ==
            IF u.err
            THEN LoadRes(defaultConfig, "error", dsk, FALSE, "existing", "none", st.rnd)
            ELSE processed(p, Process(Ptr(u.val), st))
        expanded(p) ==
            IF p.err THEN LoadRes(defaultConfig, "error", dsk, FALSE, "none", "none", st.rnd)
            ELSE IF ~dsk.exists THEN missing(p, Process(Ptr(defaultConfig), st))
            ELSE existing(p, Unmarshal(dsk.doc, defaultConfig))
    IN expanded(ExpandPath(yamlPath, st.h))

\* Load[T](yamlPath, defaultConfig), T the type of defaultConfig.  Each local
\* operator is the code that follows one call, applied to what the call returned.
Load(yamlPath, defaultConfig, st, dsk) ==
    LET \* after Save(expandedPath, defaultConfig)
        saved(r, sv) ==
            LoadRes(r.val.elem[1], IF sv.err THEN "error" ELSE "nil", sv.disk, sv.wrote,
                    "missing", "nil", r.rnd)
        \* the file does not exist: after Process(&defaultConfig)
        missing(p, r) ==
            IF r.err # "nil"
            THEN LoadRes(r.val.elem[1], r.err, dsk, FALSE, "missing", r.err, r.rnd)
            ELSE saved(r, Save(p.s, r.val.elem[1], st.h, dsk))
        \* the file exists: after Process(&cfg)
        processed(r) ==
            IF r.err # "nil"
            THEN LoadRes(defaultConfig, r.err, dsk, FALSE, "existing", r.err, r.rnd)
            ELSE LoadRes(r.val.elem[1], "nil", dsk, FALSE, "existing", "nil", r.rnd)
        \* the file exists: after yaml.Unmarshal(data, &cfg)
        existing(u) ==
            IF u.err
            THEN LoadRes(defaultConfig, "error", dsk, FALSE, "existing", "none", st.rnd)
            ELSE processed(Process(Ptr(u.val), st))
        \* after ExpandPath(yamlPath)
        expanded(p) ==
            IF p.err THEN LoadRes(defaultConfig, "error", dsk, FALSE, "none", "none", st.rnd)
            ELSE IF ~dsk.exists THEN missing(p, Process(Ptr(defaultConfig), st))
            ELSE existing(Unmarshal(dsk.doc, defaultConfig))
    IN expanded(ExpandPath(yamlPath, st.h))

\* cfg[key] = value on a map[string]interface{}
MapSet(m, key, value) ==
    IF \E i \in 1..Len(m.entries) : m.entries[i].key = key
    THEN MapOf(m.keykind, [i \in 1..Len(m.entries) |->
                              IF m.entries[i].key = key THEN Entry(key, value)
                              ELSE m.entries[i]])
    ELSE MapOf(m.keykind, Append(m.entries, Entry(key, value)))

RECURSIVE ApplyUpdates(_, _, _)
\* the loop over the -update key=value flags, from flag i on
ApplyUpdates(cfg, updates, i) ==
    IF i > Len(updates) THEN cfg
    ELSE ApplyUpdates(MapSet(cfg, updates[i].key, Iface(Str(updates[i].value))),
                      updates, i + 1)

\* saveCmd: Load with an empty map as default, the updates, Process, Save;
\* log.Fatalf ends the run with err = "error"
saveCmd(file, updates, st, dsk) ==
    LET \* after config.Save(file, cfg)
        saved(l, r, sv) ==
            LoadRes(r.val.elem[1], IF sv.err THEN "error" ELSE "nil",
                    sv.disk, sv.wrote, l.branch, "nil", r.rnd)
        \* after config.Process(&cfg)
        processed(l, r) ==
            IF r.err # "nil"
            THEN LoadRes(r.val.elem[1], "error", l.disk, l.wrote, l.branch, r.err, r.rnd)
            ELSE saved(l, r, Save(file, r.val.elem[1], st.h, l.disk))
        \* after config.Load(file, map[string]interface{}{})
        loaded(l) ==
            IF l.err # "nil"
            THEN LoadRes(l.ret, "error", l.disk, l.wrote, l.branch, l.perr, l.rnd)
            ELSE processed(l, Process(Ptr(ApplyUpdates(l.ret, updates, 1)),
                                      [st EXCEPT !.rnd = l.rnd]))
    IN loaded(Load(file, MapOf("string", <<>>), st, dsk))

(***************************************************************************)
(* SpecLoad: a program calls Load with its default configuration, and the  *)
(* save command is run on the same file, in any order                      *)
(***************************************************************************)
FSecret == Title(BSecret)
ConfigT(n, s) == Struct("T", <<Field(FSecret, TRUE, Str(SEmpty)), Field(Title(n), TRUE, Str(s))>>)
ConfigMap(n, s) ==
    MapOf("string", <<Entry(BSecret, Iface(Str(SEmpty))), Entry(n, Iface(Str(s)))>>)
ConfigNested ==
    Struct("N", <<Field(Title(NPlain), TRUE, Str(SUser)),
                  Field(<<"I","n","n","e","r">>, TRUE, ConfigT(NUser, SUser))>>)

\* the default configurations a program may pass to Load
LoadDefaults ==
    {ConfigT(NUser, SUser), ConfigT(NUser, STilde), ConfigT(NPath, STilde),
     ConfigMap(NUser, SUser), MapOf("string", <<>>), ConfigNested}

\* the file as an operator may have written it before the program runs
SeedDocs ==
    {Marshal(d) : d \in {ConfigT(NUser, SUser), ConfigT(NUser, STilde),
                         ConfigT(NPath, STilde), ConfigMap(NUser, SUser)}}

Update(k, v) == [key |-> k, value |-> v]
\* the -update flags of one run of the save command
UpdateLists ==
    {<<>>, <<Update(NUser, STilde)>>,
     <<Update(BSecret, SEmpty), Update(NPath, STilde), Update(NUser, SUser)>>}

\* the value Load hands to Process: the default, or what the file decodes to
LoadSubject(defaultConfig, dsk) ==
    IF dsk.exists THEN Unmarshal(dsk.doc, defaultConfig).val ELSE defaultConfig

\* the environments of one run whose traversals start from v (see EnvsOf); the
\* maps of this specification are visited in key order
RunEnvs(v) == {e \in EnvsOf(Ptr(v)) : ~e.rev}

InitLoad ==
    /\ tree \in LoadDefaults
    /\ err = "none"
    /\ prev = Invalid
    /\ last = "none"
    /\ home = HomeDir
    /\ disk \in {NoDisk} \cup {[exists |-> TRUE, doc |-> d] : d \in SeedDocs}
    /\ ret = Invalid
    /\ wrote = FALSE
    /\ src = Invalid
    /\ dst = Invalid
    /\ args = NoArgs

\* cfg, err := Load("~/c", tree)
LoadStep ==
    \E st \in RunEnvs(LoadSubject(tree, disk)) :
        LET returned(l) ==
                \* Process(&defaultConfig) works on Load's copy of the default,
                \* which shares its storage with the caller's when T is a map
                /\ tree' = IF tree.kind = "map" /\ l.branch = "missing" THEN l.ret ELSE tree
                /\ ret' = l.ret
                /\ err' = l.err
                /\ disk' = l.disk
                /\ wrote' = l.wrote
                /\ args' = [op |-> "Load", branch |-> l.branch, perr |-> l.perr]
        IN
        /\ returned(Load(YamlPath, tree, st, disk))
        /\ last' = "Load"
        /\ home' = st.h
        /\ UNCHANGED <<prev, src, dst>>

\* config save -file ~/c -update k=v ...
saveCmdStep ==
    \E updates \in UpdateLists :
      \E st \in RunEnvs(LoadSubject(MapOf("string", <<>>), disk))
                 \cup RunEnvs(ApplyUpdates(LoadSubject(MapOf("string", <<>>), disk),
                                           updates, 1)) :
        LET ended(c) ==
                /\ ret' = c.ret
                /\ err' = c.err
                /\ disk' = c.disk
                /\ wrote' = c.wrote
                /\ args' = [op |-> "saveCmd", branch |-> c.branch, perr |-> c.perr]
        IN
        /\ ended(saveCmd(YamlPath, updates, st, disk))
        /\ last' = "saveCmd"
        /\ home' = st.h
        /\ UNCHANGED <<tree, prev, src, dst>>

NextLoad == LoadStep \/ saveCmdStep

SpecLoad == InitLoad /\ [][NextLoad]_vars

(***************************************************************************)
(* Properties of Load and of the save command                              *)
(***************************************************************************)
\* the string fields / string values directly under the root satisfy their rules
DirectValid(v) ==
    \A i \in DirectLeaves(Ptr(v)) : RulePost(Leaves(Ptr(v))[i])

\* the named string values of a configuration, whatever the order of its keys
LeafValues(v) == {<<Leaves(v)[i].gname, Leaves(v)[i].str>> : i \in 1..Len(Leaves(v))}

EmptyMapDoc == Marshal(MapOf("string", <<>>))

\* C5 (as claimed): never persist an invalid configuration.  In every run of
\* Load and of the save command a write to disk happens only after Process
\* returned nil, and when Process returns an error no file is created or
\* modified and the run ends with an error.
C5_NoWriteOnError ==
    [][last' \in {"Load", "saveCmd"} =>
          /\ wrote' => args'.perr = "nil"
          /\ args'.perr = "error" => (disk' = disk /\ err' = "error")]_vars

\* C5 (amended): every write stores a tree on which Process has just returned
\* nil, and nothing is written after a Process that returned an error: Load on
\* a missing file then leaves the file missing and returns the error.  The save
\* command run on a missing file has, when its own Process fails, already
\* created the file from the empty default through the Load it starts with;
\* that is the only change a failing run makes.
C5_WritesFollowNil ==
    [][/\ last' = "Load" =>
             /\ wrote' => (args'.perr = "nil" /\ disk'.doc = Marshal(ret') /\ DirectValid(ret'))
             /\ args'.perr = "error" => (~wrote' /\ disk' = disk /\ err' = "error")
       /\ last' = "saveCmd" =>
             /\ (wrote' /\ err' = "nil") =>
                   (args'.perr = "nil" /\ disk'.doc = Marshal(ret') /\ DirectValid(ret'))
             /\ args'.perr = "error" =>
                   /\ err' = "error"
                   /\ \/ disk' = disk
                      \/ /\ ~disk.exists /\ args'.branch = "missing"
                         /\ disk' = [exists |-> TRUE, doc |-> EmptyMapDoc]]_vars

\* C5 witness: Load found no file, Process rejected the default, and there is
\* still no file.
C5_Witness ==
    /\ last = "Load" /\ args.branch = "missing"
    /\ args.perr = "error" /\ err = "error"
    /\ ~disk.exists /\ ~wrote

\* C6: Load on a missing file processes the default, saves it and returns it;
\* a following Load reads that file and returns the same named values, the
\* generated secret included.
C6_DefaultThenReload ==
    /\ []((last = "Load" /\ args.branch = "missing" /\ err = "nil") =>
             /\ disk.exists /\ wrote
             /\ disk.doc = Marshal(ret)
             /\ \A i \in 1..Len(Leaves(ret)) : RulePost(Leaves(ret)[i]))
    /\ [][(last = "Load" /\ args.branch = "missing" /\ err = "nil" /\ last' = "Load") =>
             /\ err' = "nil" /\ args'.branch = "existing"
             /\ LeafValues(ret') = LeafValues(ret)]_vars

\* C6 witness: a Load of the existing file returned exactly what the file
\* holds, a generated secret included.
C6_Witness ==
    /\ last = "Load" /\ args.branch = "existing" /\ err = "nil"
    /\ disk.doc = Marshal(ret)
    /\ \E i \in 1..Len(Leaves(ret)) :
          HasSuffix(Leaves(ret)[i].gname, SufSecret) /\ IsHex64(Leaves(ret)[i].str)

\* C7 (as claimed): Load on an existing file writes the processed result back,
\* so that after Load the file holds the processed values.
C7_WritesBack ==
    (last = "Load" /\ args.branch = "existing" /\ err = "nil") => disk.doc = Marshal(ret)

\* C7 (amended): Load on an existing file parses it, processes the decoded tree
\* and returns it without writing: the file is left exactly as it was, so a
\* secret generated for an empty Secret-named field exists only in the
\* returned value.
C7_ReadsOnly ==
    /\ [][(last' = "Load" /\ args'.branch = "existing") => (disk' = disk /\ ~wrote')]_vars
    /\ []((last = "Load" /\ args.branch = "existing" /\ err = "nil") =>
             /\ DirectValid(ret)
             /\ LET file == Leaves(Unmarshal(disk.doc, tree).val) IN
                \A i \in 1..Len(file) :
                    \/ Leaves(ret)[i] = file[i]
                    \/ HasSuffix(file[i].gname, SufSecret) /\ file[i].str = <<>>
                    \/ HasSuffix(file[i].gname, SufPath) /\ HasPrefix(file[i].str, <<"~">>))

\* C7 witness: Load returned a generated secret for a field that is still
\* empty in the file.
C7_Witness ==
    /\ last = "Load" /\ args.branch = "existing" /\ err = "nil"
    /\ \E i \in DirectLeaves(Ptr(ret)) :
          /\ HasSuffix(Leaves(Ptr(ret))[i].gname, SufSecret)
          /\ IsHex64(Leaves(Ptr(ret))[i].str)
          /\ <<Leaves(Ptr(ret))[i].gname, <<>>>> \in LeafValues(Unmarshal(disk.doc, tree).val)

(***************************************************************************)
(* CopyProperty with dotted paths                                          *)
(***************************************************************************)
\* a nil pointer whose element type is that of like
NilPtrTo(like) == [kind |-> "ptr", isnil |-> TRUE, elem |-> <<like>>]

RECURSIVE TypeOf(_)
\* reflect.Value.Type(): the static type of the slot that holds v
TypeOf(v) ==
    CASE v.kind = "struct" -> [t |-> "struct", name |-> v.tname]
      [] v.kind = "ptr" -> [t |-> "ptr", elem |-> TypeOf(v.elem[1])]
      [] v.kind = "map" -> [t |-> "map", key |-> v.keykind]
      [] OTHER -> [t |-> v.kind]

\* Type.AssignableTo: identical types, or any type to interface{}
AssignableTo(from, to) == from = to \/ to.t = "interface"

RECURSIVE Split(_)
\* strings.Split(path, ".")
Split(path) ==
    LET i == IndexOf(path, ".") IN
    IF i = 0 THEN <<path>> ELSE <<SubSeq(path, 1, i - 1)>> \o Split(From(path, i))

\* Value.FieldByName: the position of the field, 0 when there is none
FieldByName(v, name) ==
    IF \E k \in 1..Len(v.fields) : v.fields[k].name = name
    THEN CHOOSE k \in 1..Len(v.fields) : v.fields[k].name = name
    ELSE 0

\* a resolved field: its value, whether it was reached through an unexported
\* field (read-only), and "ok" or the error
Found(v, ro) == [val |-> v, ro |-> ro, why |-> "ok"]
NotFound(why) == [val |-> Invalid, ro |-> FALSE, why |-> why]

RECURSIVE getNestedFieldFrom(_, _, _, _)
\* the loop of getNestedField from part i on
getNestedFieldFrom(val, parts, i, ro) ==
    IF i > Len(parts) THEN Found(val, ro)
    ELSE IF val.kind = "ptr" /\ val.isnil THEN NotFound("nil pointer")
    ELSE LET s == IF val.kind = "ptr" THEN val.elem[1] ELSE val IN
         IF s.kind # "struct" THEN NotFound("expected struct")
         ELSE LET k == FieldByName(s, parts[i]) IN
              IF k = 0 THEN NotFound("not found")
              ELSE getNestedFieldFrom(s.fields[k].val, parts, i + 1,
                                      ro \/ ~s.fields[k].exported)

getNestedField(val, path) == getNestedFieldFrom(val, Split(path), 1, FALSE)

\* a getNestedFieldForWrite that walks the path as getNestedField does and
\* leaves out the CanSet test on the final field
getNestedFieldForWriteUnguarded(val, path) ==
    LET unguarded(f) == IF f.why = "ok" THEN Found(f.val, FALSE) ELSE f
    IN unguarded(getNestedField(val, path))

RECURSIVE getNestedFieldForWriteFrom(_, _, _, _)
\* the loop of getNestedFieldForWrite from part i on; the root is the Elem()
\* of a pointer, so every field on the way is addressable and CanSet fails
\* only for a field reached through an unexported one
getNestedFieldForWriteFrom(val, parts, i, ro) ==
    IF i > Len(parts) THEN Found(val, ro)
    ELSE IF val.kind = "ptr" /\ val.isnil THEN NotFound("nil pointer")
    ELSE LET s == IF val.kind = "ptr" THEN val.elem[1] ELSE val IN
         IF s.kind # "struct" THEN NotFound("expected struct")
         ELSE LET k == FieldByName(s, parts[i]) IN
              IF k = 0 THEN NotFound("not found")
              ELSE IF i = Len(parts)
              THEN IF ro \/ ~s.fields[k].exported THEN NotFound("cannot set")
                   ELSE Found(s.fields[k].val, FALSE)
              ELSE getNestedFieldForWriteFrom(s.fields[k].val, parts, i + 1,
                                              ro \/ ~s.fields[k].exported)

getNestedFieldForWrite(val, path) == getNestedFieldForWriteFrom(val, Split(path), 1, FALSE)

RECURSIVE SetNested(_, _, _, _)
\* the tree after dstField.Set(x) on the slot that parts, from part i on,
\* resolve to
SetNested(val, parts, i, x) ==
    LET s == IF val.kind = "ptr" THEN val.elem[1] ELSE val
        k == FieldByName(s, parts[i])
        new == IF i = Len(parts)
               THEN (IF s.fields[k].val.kind = "interface" /\ x.kind # "interface"
                     THEN Iface(x) ELSE x)
               ELSE SetNested(s.fields[k].val, parts, i + 1, x)
        t == Struct(s.tname, [s.fields EXCEPT ![k] = Field(@.name, @.exported, new)])
    IN IF val.kind = "ptr" THEN Ptr(t) ELSE t

\* reflect.ValueOf(c).Kind() == Ptr && .Elem().Kind() == Struct
IsStructPtr(c) == c.kind = "ptr" /\ ~c.isnil /\ c.elem[1].kind = "struct"

CopyRes(e, why, d) == [err |-> e, why |-> why, dst |-> d]

\* a CopyProperty without the AssignableTo test: reflect's Set panics instead
CopyPropertyUnchecked(srcConfig, srcFieldPath, dstConfig, dstFieldPath) ==
    IF ~IsStructPtr(srcConfig) THEN CopyRes("error", "srcConfig", dstConfig)
    ELSE IF ~IsStructPtr(dstConfig) THEN CopyRes("error", "dstConfig", dstConfig)
    ELSE LET srcField == getNestedField(srcConfig.elem[1], srcFieldPath) IN
         IF srcField.why # "ok" THEN CopyRes("error", srcField.why, dstConfig)
         ELSE LET dstField == getNestedFieldForWrite(dstConfig.elem[1], dstFieldPath) IN
              IF dstField.why # "ok" THEN CopyRes("error", dstField.why, dstConfig)
              ELSE IF srcField.ro \/ ~AssignableTo(TypeOf(srcField.val), TypeOf(dstField.val))
              THEN CopyRes("panic", "Set", dstConfig)
              ELSE CopyRes("nil", "ok",
                           Ptr(SetNested(dstConfig.elem[1], Split(dstFieldPath), 1,
                                         srcField.val)))

\* CopyProperty(srcConfig, srcFieldPath, dstConfig, dstFieldPath): the error
\* (or panic), its cause, and the destination afterwards.  Value.Set panics on
\* a source value that was obtained through an unexported field.
CopyProperty(srcConfig, srcFieldPath, dstConfig, dstFieldPath) ==
    IF ~IsStructPtr(srcConfig) THEN CopyRes("error", "srcConfig", dstConfig)
    ELSE IF ~IsStructPtr(dstConfig) THEN CopyRes("error", "dstConfig", dstConfig)
    ELSE LET srcField == getNestedField(srcConfig.elem[1], srcFieldPath) IN
         IF srcField.why # "ok" THEN CopyRes("error", srcField.why, dstConfig)
         ELSE LET dstField == getNestedFieldForWrite(dstConfig.elem[1], dstFieldPath) IN
              IF dstField.why # "ok" THEN CopyRes("error", dstField.why, dstConfig)
              ELSE IF ~AssignableTo(TypeOf(srcField.val), TypeOf(dstField.val))
              THEN CopyRes("error", "cannot assign", dstConfig)
              ELSE IF srcField.ro THEN CopyRes("panic", "Set", dstConfig)
              ELSE CopyRes("nil", "ok",
                           Ptr(SetNested(dstConfig.elem[1], Split(dstFieldPath), 1,
                                         srcField.val)))

(***************************************************************************)
(* SpecCopy: a caller copies properties from one configuration to another  *)
(***************************************************************************)
FName == <<"N","a","m","e">>
FPort == <<"P","o","r","t">>
FAny == <<"A","n","y">>
FIn == <<"I","n">>
FPIn == <<"P","I","n">>
FHidden == <<"s","e","c","r","e","t">>
FHidIn == <<"h","i","d","I","n">>
FSecrets == <<"S","e","c","r","e","t","s">>
FVal == <<"V","a","l">>
FNum == <<"N","u","m">>
KApi == <<"a","p","i">>
Dot(a, b) == a \o <<".">> \o b

InnerOf(s, n) == Struct("Inner", <<Field(FVal, TRUE, Str(s)), Field(FNum, TRUE, IntV(n))>>)

CfgOf(name, port, any, in, pin, hidden) ==
    Struct("Cfg", <<Field(FName, TRUE, Str(name)), Field(FPort, TRUE, IntV(port)),
                    Field(FAny, TRUE, any), Field(FIn, TRUE, in), Field(FPIn, TRUE, pin),
                    Field(FHidden, FALSE, Str(hidden)), Field(FHidIn, FALSE, in),
                    Field(FSecrets, TRUE, MapOf("string", <<Entry(KApi, Str(hidden))>>))>>)

SrcCfg == CfgOf(SUser, 7, Iface(Str(SUrl)), InnerOf(STilde, 7), Ptr(InnerOf(SUrl, 7)), SUrl)
DstCfg(pin) == CfgOf(SEmpty, 0, NilIface, InnerOf(SEmpty, 0), pin, SEmpty)

\* a source whose pointer field is nil
SrcCfgNilPIn ==
    CfgOf(SUser, 7, Iface(Str(SUrl)), InnerOf(STilde, 7), NilPtrTo(InnerOf(SEmpty, 0)), SUrl)

CopySources == {Ptr(SrcCfg), Ptr(SrcCfgNilPIn), SrcCfg}
CopyDests ==
    {Ptr(DstCfg(Ptr(InnerOf(SEmpty, 0)))), Ptr(DstCfg(NilPtrTo(InnerOf(SEmpty, 0)))),
     DstCfg(NilPtrTo(InnerOf(SEmpty, 0)))}

FieldPaths ==
    {FName, FPort, FAny, FPIn, FHidden, Dot(FIn, FVal), Dot(FPIn, FVal), Dot(FHidIn, FVal),
     Dot(FSecrets, KApi), Dot(FName, FVal), <<"N","o","p","e">>}

\* the number of CopyProperty calls of one run
MaxCopies == 2
Calls == IF args.op = "CopyProperty" THEN args.n ELSE 0

InitCopy ==
    /\ tree = Invalid
    /\ err = "none"
    /\ prev = Invalid
    /\ last = "none"
    /\ home = HomeDir
    /\ disk = NoDisk
    /\ ret = Invalid
    /\ wrote = FALSE
    /\ src \in CopySources
    /\ dst \in CopyDests
    /\ args = NoArgs

\* err := CopyProperty(src, srcPath, dst, dstPath); a panic ends the program
CopyStep ==
    /\ err # "panic"
    /\ Calls < MaxCopies
    /\ \E srcPath \in FieldPaths, dstPath \in FieldPaths :
         LET r == CopyProperty(src, srcPath, dst, dstPath) IN
         /\ dst' = r.dst
         /\ prev' = dst
         /\ err' = r.err
         /\ last' = "CopyProperty"
         /\ args' = [op |-> "CopyProperty", srcPath |-> srcPath, dstPath |-> dstPath,
                     why |-> r.why, n |-> Calls + 1]
    /\ UNCHANGED <<tree, home, disk, ret, wrote, src>>

NextCopy == CopyStep

SpecCopy == InitCopy /\ [][NextCopy]_vars

(***************************************************************************)
(* Properties of CopyProperty                                              *)
(***************************************************************************)
\* the last call was made on two pointers to structs with a source path that
\* resolves and a destination path that resolves to a settable slot
CopyResolved ==
    /\ last = "CopyProperty"
    /\ IsStructPtr(src) /\ IsStructPtr(prev)
    /\ getNestedField(src.elem[1], args.srcPath).why = "ok"
    /\ getNestedFieldForWrite(prev.elem[1], args.dstPath).why = "ok"

CopyAssignable ==
    AssignableTo(TypeOf(getNestedField(src.elem[1], args.srcPath).val),
                 TypeOf(getNestedFieldForWrite(prev.elem[1], args.dstPath).val))

\* C9 (as claimed): copy round-trip.  Whenever the source path resolves to a
\* value and the destination path to a settable slot of an assignable type,
\* CopyProperty returns nil, the destination slot holds the source value, and
\* every other field of the destination is as before.
C9_CopyRoundTrip ==
    (CopyResolved /\ CopyAssignable) =>
        /\ err = "nil"
        /\ Unwrap(getNestedField(dst.elem[1], args.dstPath).val)
              = Unwrap(getNestedField(src.elem[1], args.srcPath).val)
        /\ \A p \in FieldPaths :
              (p # args.dstPath /\ ~HasPrefix(p, args.dstPath) /\ ~HasPrefix(args.dstPath, p))
                  => getNestedField(dst.elem[1], p) = getNestedField(prev.elem[1], p)

\* C10: copy type mismatch.  Whenever the type of the resolved source value is
\* not assignable to the type of the resolved destination slot, CopyProperty
\* returns the type-mismatch error and the destination is exactly as before.
C10_TypeMismatch ==
    (CopyResolved /\ ~CopyAssignable) =>
        (err = "error" /\ args.why = "cannot assign" /\ dst = prev)

\* C10 witness: an integer field was copied onto a string field and refused.
C10_Witness ==
    /\ CopyResolved /\ ~CopyAssignable
    /\ args.srcPath = FPort /\ args.dstPath = FName
    /\ err = "error" /\ dst = prev

\* what the first k parts of a path resolve to from root
PathAt(root, parts, k) == getNestedFieldFrom(root, SubSeq(parts, 1, k), 1, FALSE)

\* the struct a resolved value stands for: the pointee of a non-nil pointer
Deref(v) == IF v.kind = "ptr" /\ ~v.isnil THEN v.elem[1] ELSE v

\* an intermediate pointer on the path is nil
NilOnPath(root, parts) ==
    \E k \in 0..(Len(parts) - 1) :
        /\ PathAt(root, parts, k).why = "ok"
        /\ PathAt(root, parts, k).val.kind = "ptr" /\ PathAt(root, parts, k).val.isnil

\* an intermediate node on the path is not a struct
NotStructOnPath(root, parts) ==
    \E k \in 0..(Len(parts) - 1) :
        /\ PathAt(root, parts, k).why = "ok"
        /\ ~(PathAt(root, parts, k).val.kind = "ptr" /\ PathAt(root, parts, k).val.isnil)
        /\ Deref(PathAt(root, parts, k).val).kind # "struct"

\* a segment of the path names no field of the struct it is looked up in
NoFieldOnPath(root, parts) ==
    \E k \in 1..Len(parts) :
        /\ PathAt(root, parts, k - 1).why = "ok"
        /\ Deref(PathAt(root, parts, k - 1).val).kind = "struct"
        /\ \A j \in 1..Len(Deref(PathAt(root, parts, k - 1).val).fields) :
               Deref(PathAt(root, parts, k - 1).val).fields[j].name # parts[k]

\* the message of the fault of a path, "ok" when it has none
PathFault(root, parts) ==
    IF NilOnPath(root, parts) THEN "nil pointer"
    ELSE IF NotStructOnPath(root, parts) THEN "expected struct"
    ELSE IF NoFieldOnPath(root, parts) THEN "not found"
    ELSE "ok"

\* the path resolves, to a field that is not settable
NotSettable(root, parts) ==
    /\ PathFault(root, parts) = "ok"
    /\ PathAt(root, parts, Len(parts)).ro

\* C11: every invalid copy request yields an error and changes nothing.  When a
\* root is not a pointer to a struct, when a path names no field, crosses a nil
\* pointer or a node that is not a struct, or when the destination field is
\* not settable, CopyProperty returns an error (no panic) and the destination
\* is as before; the source root is reported before the destination root, the
\* source path before the destination path.
C11_InvalidRequest ==
    last = "CopyProperty" =>
        /\ ~IsStructPtr(src) => (err = "error" /\ args.why = "srcConfig" /\ dst = prev)
        /\ (IsStructPtr(src) /\ ~IsStructPtr(prev)) =>
               (err = "error" /\ args.why = "dstConfig" /\ dst = prev)
        /\ (IsStructPtr(src) /\ IsStructPtr(prev)) =>
              /\ PathFault(src.elem[1], Split(args.srcPath)) # "ok" =>
                    /\ err = "error" /\ dst = prev
                    /\ args.why = PathFault(src.elem[1], Split(args.srcPath))
              /\ (/\ PathFault(src.elem[1], Split(args.srcPath)) = "ok"
                  /\ PathFault(prev.elem[1], Split(args.dstPath)) # "ok") =>
                    /\ err = "error" /\ dst = prev
                    /\ args.why = PathFault(prev.elem[1], Split(args.dstPath))
              /\ (/\ PathFault(src.elem[1], Split(args.srcPath)) = "ok"
                  /\ NotSettable(prev.elem[1], Split(args.dstPath))) =>
                    (err = "error" /\ args.why = "cannot set" /\ dst = prev)

\* C11 witness: a copy through a nil pointer of the source onto a field that
\* does not exist was refused with the source's fault, the destination intact.
C11_Witness ==
    /\ last = "CopyProperty" /\ IsStructPtr(src) /\ IsStructPtr(prev)
    /\ NilOnPath(src.elem[1], Split(args.srcPath))
    /\ NoFieldOnPath(prev.elem[1], Split(args.dstPath))
    /\ err = "error" /\ args.why = "nil pointer" /\ dst = prev

\* C12 (as claimed): a dotted path may address an entry of a map-typed field.
\* Copying Secrets.api, with Secrets a map of string to string that holds the
\* key api, onto a string field succeeds and stores the entry's value there.
C12_MapEntryPath ==
    (/\ last = "CopyProperty" /\ IsStructPtr(src) /\ IsStructPtr(prev)
     /\ args.srcPath = Dot(FSecrets, KApi) /\ args.dstPath = FName) =>
        /\ err = "nil"
        /\ getNestedField(dst.elem[1], FName).val
              = getNestedField(src.elem[1], FSecrets).val.entries[1].val

\* C26 (as claimed): read-mode resolution has no settability requirement.
\* Whenever the source path ends at a field that can be read but not set (one
\* reached through an unexported field) and the destination path ends at a
\* settable field of an assignable type, CopyProperty returns nil and the
\* destination slot holds the source value.
C26_ReadOnlySource ==
    (CopyResolved /\ CopyAssignable /\ getNestedField(src.elem[1], args.srcPath).ro) =>
        /\ err = "nil"
        /\ Unwrap(getNestedField(dst.elem[1], args.dstPath).val)
              = Unwrap(getNestedField(src.elem[1], args.srcPath).val)

(***************************************************************************)
(* SpecRules: the scalar rules as functions of their input.  A caller      *)
(* picks a string and applies ExpandPath (once, and again to the result),  *)
(* ValidateUsername or ValidateURL to it.                                  *)
(***************************************************************************)
\* all strings over an alphabet up to a length
StringsUpTo(alphabet, n) == UNION {[1..k -> alphabet] : k \in 0..n}

MaxPathLen == 3
PathInputs == StringsUpTo({"~", "/", "x", "."}, MaxPathLen)

\* usernames around the limits of the pattern: a first character, a run of one
\* filler character, a last character
UserLens == {0, 1, 2, 1 + UsernameTailMax, 2 + UsernameTailMax}
UserFirsts == {"a", "_", "A", "1", "-"}
UserFills == {"b", "0", "-", "B", "."}
UserInputs ==
    {[i \in 1..n |-> IF i = 1 THEN f ELSE IF i = n THEN l ELSE m] :
        n \in UserLens, f \in UserFirsts, m \in UserFills, l \in UserFills \cup {"_"}}

MaxUrlLen == 5
UrlInputs ==
    StringsUpTo({"s", "1", ":", "/"}, MaxUrlLen)
    \cup {<<"h","t","t","p",":","/","/">>,
          <<"n","o","t","-","a","-","u","r","l">>,
          <<":","/","/","m","i","s","s","i","n","g","-","s","c","h","e","m","e">>,
          <<"h","t","t","p",":","/","/","e","x","a","m","p","l","e",".","c","o","m">>}

RuleInputs == PathInputs \cup UserInputs \cup UrlInputs

\* $HOME: unset, or an absolute directory (with or without a trailing slash)
AbsHomes == {HomeDir, <<"/">>, <<"/","h","/">>}

InitRules ==
    /\ tree \in RuleInputs
    /\ err = "none"
    /\ prev = <<>>
    /\ last = "none"
    /\ home = HomeDir
    /\ disk = NoDisk
    /\ ret = <<>>
    /\ wrote = FALSE
    /\ src = Invalid
    /\ dst = Invalid
    /\ args = NoArgs

\* ret, err := ExpandPath(tree), under some $HOME
ExpandPathStep ==
    /\ last = "none"
    /\ \E h \in AbsHomes \cup {<<>>} :
         LET returned(e) == ret' = e.s /\ err' = (IF e.err THEN "error" ELSE "nil")
         IN /\ returned(ExpandPath(tree, h))
            /\ home' = h
    /\ prev' = tree
    /\ last' = "ExpandPath"
    /\ UNCHANGED <<tree, disk, wrote, src, dst, args>>

\* ret, err := ExpandPath(ret): the result of ExpandPath is expanded again
ReExpandStep ==
    /\ last = "ExpandPath" /\ err = "nil"
    /\ LET returned(e) == ret' = e.s /\ err' = (IF e.err THEN "error" ELSE "nil")
       IN returned(ExpandPath(ret, home))
    /\ prev' = ret
    /\ last' = "ReExpand"
    /\ UNCHANGED <<tree, home, disk, wrote, src, dst, args>>

\* err := ValidateUsername(tree)
ValidateUsernameStep ==
    /\ last = "none"
    /\ err' = (IF ValidateUsername(tree) THEN "error" ELSE "nil")
    /\ last' = "ValidateUsername"
    /\ UNCHANGED <<tree, prev, home, disk, ret, wrote, src, dst, args>>

\* err := ValidateURL(tree)
ValidateURLStep ==
    /\ last = "none"
    /\ err' = (IF ValidateURL(tree) THEN "error" ELSE "nil")
    /\ last' = "ValidateURL"
    /\ UNCHANGED <<tree, prev, home, disk, ret, wrote, src, dst, args>>

NextRules == ExpandPathStep \/ ReExpandStep \/ ValidateUsernameStep \/ ValidateURLStep

SpecRules == InitRules /\ [][NextRules]_vars

(***************************************************************************)
(* Properties of the scalar rules                                          *)
(***************************************************************************)
\* a directory name without its trailing slash (the root keeps its own)
Trimmed(dir) ==
    IF Len(dir) > 1 /\ dir[Len(dir)] = "/" THEN SubSeq(dir, 1, Len(dir) - 1) ELSE dir

\* dir joined with a single name
Under(dir, name) == IF Trimmed(dir) = <<"/">> THEN <<"/">> \o name ELSE Trimmed(dir) \o <<"/">> \o name

UsernameShape(u) ==
    /\ Len(u) \in 1..32
    /\ u[1] \in LowerLetters \cup {"_"}
    /\ {u[i] : i \in 2..Len(u)} \subseteq LowerLetters \cup Digits \cup {"_", "-"}

\* C16: username validation is total and exact.  ValidateUsername returns nil
\* exactly for the strings of 1 to 32 characters that start with a lowercase
\* letter or underscore and go on with lowercase letters, digits, underscores
\* and dashes; the empty string, an uppercase letter, a leading digit and a
\* length above 32 are rejected.
C16_UsernameExact ==
    last = "ValidateUsername" =>
        /\ err \in {"nil", "error"}
        /\ err = "nil" <=> UsernameShape(tree)
        /\ tree = <<>> => err = "error"
        /\ (\E i \in 1..Len(tree) : tree[i] \in UpperLetters) => err = "error"
        /\ (tree # <<>> /\ tree[1] \in Digits) => err = "error"
        /\ Len(tree) > 32 => err = "error"

\* C16 witness: a username of 32 characters was accepted.
C16_Witness ==
    /\ last = "ValidateUsername" /\ err = "nil"
    /\ Len(tree) = 32 /\ tree[1] = "_" /\ tree[2] = "0" /\ tree[32] = "-"

\* the strings, written in the characters of UrlAlphabet, that are a scheme, a
\* colon, two slashes and a non-empty authority whose port, if any, is numeric
UrlShape(u) ==
    \E k \in 2..Len(u) :
        /\ u[k] = ":"
        /\ u[1] \in LowerLetters \cup UpperLetters
        /\ \A i \in 2..(k - 1) :
              u[i] \in LowerLetters \cup UpperLetters \cup Digits \cup {"+", "-", "."}
        /\ Len(u) >= k + 3 /\ u[k + 1] = "/" /\ u[k + 2] = "/" /\ u[k + 3] # "/"
        /\ \A c \in (k + 3)..Len(u) :
              (u[c] = ":" /\ \A j \in (k + 3)..(c - 1) : u[j] # "/") =>
                  \/ \E j \in (c + 1)..Len(u) :
                        u[j] = ":" /\ \A m \in (k + 3)..j : u[m] # "/"
                  \/ \A j \in (c + 1)..Len(u) :
                        (\A m \in (c + 1)..j : u[m] # "/") => u[j] \in Digits

\* C17: URL validation is total and exact.  ValidateURL returns nil exactly for
\* the strings that parse as a URL with a non-empty scheme and a non-empty
\* host; "http://", a string without a scheme and a string with nothing before
\* "://" are rejected.
C17_URLExact ==
    last = "ValidateURL" =>
        /\ err \in {"nil", "error"}
        /\ err = "nil" <=> UrlShape(tree)
        /\ tree = <<"h","t","t","p",":","/","/">> => err = "error"
        /\ tree = <<"n","o","t","-","a","-","u","r","l">> => err = "error"
        /\ HasPrefix(tree, <<":","/","/">>) => err = "error"

\* C17 witness: a URL with a scheme and a host was accepted.
C17_Witness ==
    /\ last = "ValidateURL" /\ err = "nil"
    /\ tree = <<"s", ":", "/", "/", "1">>

(***************************************************************************)
(* The variables-section Process: a fixed top-level "variables" section    *)
(* with the sub-maps endpoints, secrets, users and paths                   *)
(***************************************************************************)
KVariables == <<"v","a","r","i","a","b","l","e","s">>
KEndpoints == <<"e","n","d","p","o","i","n","t","s">>
KSecrets == <<"s","e","c","r","e","t","s">>
KUsers == <<"u","s","e","r","s">>
KPaths == <<"p","a","t","h","s">>
\* the sub-maps in the order processVariables visits them
Sections == <<KEndpoints, KSecrets, KUsers, KPaths>>

\* the processors: [s, err]
processEndpointValue(s) == [s |-> s, err |-> s # <<>> /\ ValidateURL(s)]
processSecretValue(s, draw) ==
    IF s = <<>> THEN GenerateJWTSecret(draw) ELSE [s |-> s, err |-> FALSE]
processUserValue(s) == [s |-> s, err |-> s # <<>> /\ ValidateUsername(s)]
processPathValue(s, h) ==
    IF s = <<>> THEN [s |-> s, err |-> FALSE] ELSE ExpandPath(s, h)

\* the processor handed to processMap / processMapValue for sub-map k
processor(k, s, st) ==
    CASE k = 1 -> processEndpointValue(s)
      [] k = 2 -> processSecretValue(s, NextDraw(st.rnd))
      [] k = 3 -> processUserValue(s)
      [] k = 4 -> processPathValue(s, st.h)

\* Value.MapIndex(reflect.ValueOf(key)): the entry's value, typed by the map's
\* element type (an interface value stays an interface), or the zero Value
MapIndex(m, key) ==
    IF \E i \in 1..Len(m.entries) : m.entries[i].key = key
    THEN m.entries[CHOOSE i \in 1..Len(m.entries) : m.entries[i].key = key].val
    ELSE Invalid

RECURSIVE processMapFrom(_, _, _, _)
\* the loop of processMap and of processMapValue over m.MapKeys(), from the
\* i-th key on; SetMapIndex writes into the map the caller holds
processMapFrom(m, i, k, st) ==
    IF i > Len(m.entries) THEN Res(m, "nil", st.rnd)
    ELSE LET at == MapOrder(Len(m.entries), st.rev)[i]
             set(val, p) ==
                 IF p.err THEN Res(m, "error", st.rnd)
                 ELSE processMapFrom(MapSet(m, m.entries[at].key, Rebox(val, Str(p.s))),
                                     i + 1, k,
                                     [st EXCEPT !.rnd = Consume(st.rnd,
                                                    k = 2 /\ Unwrap(val).str = <<>>)])
             each(val) ==
                 IF Unwrap(val).kind = "string"
                 THEN set(val, processor(k, Unwrap(val).str, st))
                 ELSE processMapFrom(m, i + 1, k, st)
         IN each(m.entries[at].val)

processMap(m, k, st) == processMapFrom(m, 1, k, st)

processMapValue(v, k, st) ==
    IF v.kind # "map" THEN Res(v, "nil", st.rnd) ELSE processMapFrom(v, 1, k, st)

RECURSIVE processVariablesStruct(_, _, _)
\* the struct case of processVariables, from sub-map k on
processVariablesStruct(v, k, st) ==
    IF k > Len(Sections) THEN Res(v, "nil", st.rnd)
    ELSE LET at == FieldByName(v, Title(Sections[k]))
             into(r) ==
                 LET w == [v EXCEPT !.fields[at].val = r.val]
                 IN IF r.err # "nil" THEN Res(w, r.err, r.rnd)
                    ELSE processVariablesStruct(w, k + 1, [st EXCEPT !.rnd = r.rnd])
         IN IF at # 0 /\ v.fields[at].val.kind = "map"
            THEN into(processMap(v.fields[at].val, k, st))
            ELSE processVariablesStruct(v, k + 1, st)

RECURSIVE processVariablesMap(_, _, _)
\* the map case of processVariables, from sub-map k on; MapIndex with a string
\* key panics on a map whose key type a string cannot be assigned to
processVariablesMap(v, k, st) ==
    IF k > Len(Sections) THEN Res(v, "nil", st.rnd)
    ELSE IF v.keykind \notin {"string", "interface"} THEN Res(v, "panic", st.rnd)
    ELSE LET into(old, r) ==
                 LET w == IF old.kind = "map" THEN MapSet(v, Sections[k], r.val) ELSE v
                 IN IF r.err # "nil" THEN Res(w, r.err, r.rnd)
                    ELSE processVariablesMap(w, k + 1, [st EXCEPT !.rnd = r.rnd])
             found(val) ==
                 IF val.kind = "invalid" THEN processVariablesMap(v, k + 1, st)
                 ELSE into(val, processMapValue(val, k, st))
         IN found(MapIndex(v, Sections[k]))

processVariables(v, st) ==
    LET under(x) ==
            CASE x.kind = "struct" -> processVariablesStruct(x, 1, st)
              [] x.kind = "map" -> processVariablesMap(x, 1, st)
              [] OTHER -> Res(x, "nil", st.rnd)
        pointed(r) == Res(Ptr(r.val), r.err, r.rnd)
    IN IF v.kind = "ptr"
       THEN IF v.isnil THEN Res(v, "nil", st.rnd) ELSE pointed(under(v.elem[1]))
       ELSE under(v)

\* Process(cfg) of the variables-section design
ProcessSection(cfg, st) ==
    LET top(v) ==
            LET field == IF v.kind = "struct" THEN FieldByName(v, Title(KVariables)) ELSE 0
                inField(r) == Res([v EXCEPT !.fields[field].val = r.val], r.err, r.rnd)
                inKey(old, r) ==
                    Res(IF old.kind = "invalid" THEN v ELSE MapSet(v, KVariables, r.val),
                        r.err, r.rnd)
                keyed(val) ==
                    IF val.kind = "invalid" THEN Res(v, "nil", st.rnd)
                    ELSE inKey(val, processVariables(val, st))
            IN IF field # 0 THEN inField(processVariables(v.fields[field].val, st))
               ELSE IF v.kind = "map"
               THEN IF v.keykind \notin {"string", "interface"} THEN Res(v, "panic", st.rnd)
                    ELSE keyed(MapIndex(v, KVariables))
               ELSE Res(v, "nil", st.rnd)
        pointed(r) == Res(Ptr(r.val), r.err, r.rnd)
    IN IF cfg.kind = "interface" /\ cfg.isnil THEN Res(cfg, "nil", st.rnd)
       ELSE IF cfg.kind = "ptr"
       THEN IF cfg.isnil THEN Res(cfg, "nil", st.rnd) ELSE pointed(top(cfg.elem[1]))
       ELSE top(cfg)

(***************************************************************************)
(* SpecSection: a caller builds a configuration with a variables section   *)
(* and calls the variables-section Process on it                           *)
(***************************************************************************)
\* what a sub-map holds under its one key: a string, or the sub-map is absent
SAbsent == <<"-">>
KOne == <<"k">>
SectionContents == [1..Len(Sections) -> LeafStrs \cup {SAbsent}]

\* the sub-maps that are present, as map entries built by mk
SectionEntries(c, mk(_)) ==
    LET present == SelectSeq(<<1, 2, 3, 4>>, LAMBDA k : c[k] # SAbsent)
    IN [i \in 1..Len(present) |-> Entry(Sections[present[i]], mk(c[present[i]]))]

\* map[string]interface{} all the way down (what a YAML decoder or a literal
\* in the tests builds)
GenericCfg(c) ==
    LET mk(s) == Iface(MapOf("string", <<Entry(KOne, Iface(Str(s)))>>))
    IN MapOf("string", <<Entry(KVariables, Iface(MapOf("string", SectionEntries(c, mk))))>>)

\* map[string]map[string]map[string]string
TypedMapCfg(c) ==
    LET mk(s) == MapOf("string", <<Entry(KOne, Str(s))>>)
    IN MapOf("string", <<Entry(KVariables, MapOf("string", SectionEntries(c, mk)))>>)

\* &myConfig{Variables: Variables{...}, Ignored: 42}; an absent sub-map is a
\* nil map
StructCfg(c) ==
    LET mk(s) == IF s = SAbsent THEN MapOf("string", <<>>)
                 ELSE MapOf("string", <<Entry(KOne, Str(s))>>)
    IN Ptr(Struct("myConfig",
                  <<Field(Title(KVariables), TRUE,
                          Struct("Variables",
                                 [k \in 1..Len(Sections) |->
                                     Field(Title(Sections[k]), TRUE, mk(c[k]))])),
                    Field(<<"I","g","n","o","r","e","d">>, TRUE, IntV(42))>>))

SectionTrees ==
    UNION {{GenericCfg(c), TypedMapCfg(c), StructCfg(c)} : c \in SectionContents}
    \cup {NilPtr, NilIface, Ptr(Str(SUser)),
          Ptr(Struct("T", <<Field(Title(NPlain), TRUE, Str(SUser))>>)),
          MapOf("int", <<Entry(<<"1">>, Str(SUser))>>)}

\* the variables section of a configuration, the sub-map k of a section and
\* the string it holds (SAbsent when there is none)
VarsOf(cfg) ==
    LET under(v) ==
            IF v.kind = "struct"
            THEN IF FieldByName(v, Title(KVariables)) = 0 THEN Invalid
                 ELSE v.fields[FieldByName(v, Title(KVariables))].val
            ELSE IF v.kind = "map" THEN Unwrap(MapIndex(v, KVariables))
            ELSE Invalid
    IN under(Deref(cfg))
SubMap(section, k) ==
    IF section.kind = "struct"
    THEN section.fields[FieldByName(section, Title(Sections[k]))].val
    ELSE IF section.kind = "map" THEN Unwrap(MapIndex(section, Sections[k]))
    ELSE Invalid
SectionStr(cfg, k) ==
    LET held(m) == IF m.kind = "map" /\ m.entries # <<>>
                   THEN Unwrap(m.entries[1].val).str ELSE SAbsent
    IN held(SubMap(VarsOf(cfg), k))

\* the environments a call can tell apart
SectionEnvs(v) ==
    [rnd : {<<a, a>> : a \in (IF SectionStr(v, 2) = <<>> THEN EntropyDraws ELSE {1})},
     rev : {FALSE},
     h : IF HasPrefix(SectionStr(v, 4), <<"~">>) THEN HomeDirs ELSE {HomeDir},
     keep : {FALSE}]

InitSection ==
    /\ tree \in SectionTrees
    /\ err = "none"
    /\ prev = tree
    /\ last = "none"
    /\ home = HomeDir
    /\ disk = NoDisk
    /\ ret = Invalid
    /\ wrote = FALSE
    /\ src = Invalid
    /\ dst = Invalid
    /\ args = NoArgs

\* err := Process(cfg); the maps of cfg are the caller's; a panic ends the
\* program
ProcessSectionStep ==
    /\ err # "panic"
    /\ \E env \in SectionEnvs(tree) :
         LET returned(r) == tree' = r.val /\ err' = r.err IN
         /\ returned(ProcessSection(tree, env))
         /\ home' = env.h
         /\ args' = [op |-> "ProcessSection", env |-> env]
    /\ prev' = tree
    /\ last' = "ProcessSection"
    /\ UNCHANGED <<disk, ret, wrote, src, dst>>

NextSection == ProcessSectionStep

SpecSection == InitSection /\ [][NextSection]_vars

\* a configuration made of map[string]interface{} with a "variables" key
IsGenericCfg(cfg) ==
    /\ cfg.kind = "map" /\ cfg.keykind = "string"
    /\ MapIndex(cfg, KVariables).kind = "interface"
    /\ VarsOf(cfg).kind = "map"

\* C18: on a generic map with a top-level "variables" key, Process returns an
\* error for an invalid username in users or an invalid URL in endpoints, and
\* on success every empty secret has been replaced by a generated secret and
\* every path expanded, in the caller's nested maps.
C18_GenericMap ==
    (last = "ProcessSection" /\ IsGenericCfg(prev)) =>
        /\ (SectionStr(prev, 3) \notin {SAbsent, <<>>} /\ ValidateUsername(SectionStr(prev, 3)))
              => err = "error"
        /\ (SectionStr(prev, 1) \notin {SAbsent, <<>>} /\ ValidateURL(SectionStr(prev, 1)))
              => err = "error"
        /\ err = "nil" =>
              /\ SectionStr(prev, 2) = <<>> => IsHex64(SectionStr(tree, 2))
              /\ SectionStr(prev, 4) \notin {SAbsent, <<>>} =>
                    SectionStr(tree, 4) = ExpandPath(SectionStr(prev, 4), home).s

(***************************************************************************)
(* yaml.v3 documents as the node-based API sees them (yamledit.Parse,      *)
(* yamledit.ReadNode, yamledit.Encode)                                     *)
(***************************************************************************)
\* a scalar as written in a file: its text, whether it is quoted, and its
\* explicit tag ("" when none is written)
YText(text, quoted, etag) == [kind |-> "scalar", text |-> text, quoted |-> quoted, etag |-> etag]

\* a scalar yaml.Node: short tag, style ("plain", "double" or "tagged"), Value
YNode(tag, style, value) == [kind |-> "scalar", tag |-> tag, style |-> style, value |-> value]

\* resolve("", value) of yaml.v3: as in yaml.v2, but only true and false are
\* booleans
Resolve3(text) ==
    IF text \in YTrues \cup YFalses
    THEN IF text \in {<<"t","r","u","e">>, <<"T","r","u","e">>, <<"T","R","U","E">>,
                      <<"f","a","l","s","e">>, <<"F","a","l","s","e">>, <<"F","A","L","S","E">>}
         THEN "bool" ELSE "str"
    ELSE Resolve(text)

RECURSIVE Parse3(_)
\* the parser: a written tag is kept (TaggedStyle), a quoted scalar is !!str,
\* a plain scalar gets the tag its text resolves to
Parse3(t) ==
    CASE t.kind = "scalar" ->
            IF t.etag # "" THEN YNode(t.etag, "tagged", t.text)
            ELSE IF t.quoted THEN YNode("str", "double", t.text)
            ELSE YNode(Resolve3(t.text), "plain", t.text)
      [] t.kind = "mapping" ->
            YMapping([i \in 1..Len(t.pairs) |-> YPair(t.pairs[i].key, Parse3(t.pairs[i].node))])
      [] t.kind = "sequence" -> YSequence([i \in 1..Len(t.items) |-> Parse3(t.items[i])])

RECURSIVE Encode3(_)
\* the encoder: a tag that was not written is dropped when the value alone
\* resolves to it, a !!str whose text would resolve to something else is
\* quoted, and any other tag is written out
Encode3(n) ==
    CASE n.kind = "scalar" ->
            LET written(rtag) ==
                    IF n.tag \in {"", rtag} THEN YText(n.value, n.style = "double", "")
                    ELSE IF n.tag = "str" THEN YText(n.value, TRUE, "")
                    ELSE YText(n.value, n.style = "double", n.tag)
            IN IF n.style = "tagged" THEN YText(n.value, FALSE, n.tag)
               ELSE IF n.tag = "str" /\ n.style = "double" THEN YText(n.value, TRUE, "")
               ELSE written(Resolve3(n.value))
      [] n.kind = "mapping" ->
            YMapping([i \in 1..Len(n.pairs) |-> YPair(n.pairs[i].key, Encode3(n.pairs[i].node))])
      [] n.kind = "sequence" -> YSequence([i \in 1..Len(n.items) |-> Encode3(n.items[i])])

\* the position of a key in a mapping node, 0 when there is none
PairAt(n, key) ==
    IF n.kind = "mapping" /\ \E i \in 1..Len(n.pairs) : n.pairs[i].key = key
    THEN CHOOSE i \in 1..Len(n.pairs) : n.pairs[i].key = key
    ELSE 0

RECURSIVE FindNode(_, _)
\* the node at a dotted path (given as its segments), Invalid when a segment
\* is missing
FindNode(n, path) ==
    IF path = <<>> THEN n
    ELSE IF PairAt(n, Head(path)) = 0 THEN Invalid
    ELSE FindNode(n.pairs[PairAt(n, Head(path))].node, Tail(path))

RECURSIVE PutNode(_, _, _)
\* the document after the node at a path was changed through its pointer
PutNode(n, path, new) ==
    IF path = <<>> THEN new
    ELSE [n EXCEPT !.pairs[PairAt(n, Head(path))].node = PutNode(@, Tail(path), new)]

IsNull3(n) == n.kind = "scalar" /\ n.style # "double" /\ n.tag \in {"", "null"} /\ Resolve3(n.value) = "null"

\* decoding a node into a string: [s, err].  Every scalar fits a string, a
\* null leaves the zero value; a scalar whose text does not resolve to its tag
\* cannot be decoded
DecodeString(n) ==
    LET resolved(rtag) ==
            IF n.tag \notin {"", rtag} /\ ~(n.tag = "float" /\ rtag = "int")
            THEN [s |-> <<>>, err |-> TRUE]
            ELSE IF rtag = "null" THEN [s |-> <<>>, err |-> FALSE]
            ELSE [s |-> n.value, err |-> FALSE]
    IN IF n.kind # "scalar" THEN [s |-> <<>>, err |-> TRUE]
       ELSE IF n.style = "double" \/ n.tag = "str" THEN [s |-> n.value, err |-> FALSE]
       ELSE resolved(Resolve3(n.value))

\* a map[string]string: nil, or its entries
NilMap == [isnil |-> TRUE, entries |-> <<>>]
StrMap(es) == [isnil |-> FALSE, entries |-> es]
HasKey(m, key) == \E i \in 1..Len(m.entries) : m.entries[i].key = key
\* m[key] = s
StrMapSet(m, key, s) ==
    StrMap(IF HasKey(m, key)
           THEN [i \in 1..Len(m.entries) |->
                    IF m.entries[i].key = key THEN Entry(key, s) ELSE m.entries[i]]
           ELSE Append(m.entries, Entry(key, s)))

\* decoding a node into a map[string]string: [map, err]; the values that do
\* not decode are reported and left out of the map
DecodeStrMap(n) ==
    IF IsNull3(n) THEN [map |-> NilMap, err |-> FALSE]
    ELSE IF n.kind # "mapping" THEN [map |-> NilMap, err |-> TRUE]
    ELSE LET kept(good) ==
                 [map |-> StrMap([j \in 1..Len(good) |-> Entry(good[j].key, good[j].s)]),
                  err |-> Len(good) # Len(n.pairs)]
             decoded(key, d) == [key |-> key, s |-> d.s, err |-> d.err]
         IN kept(SelectSeq([i \in 1..Len(n.pairs) |->
                               decoded(n.pairs[i].key, DecodeString(n.pairs[i].node))],
                           LAMBDA d : ~d.err))

\* decoding a node into a []string: [list, err]
DecodeStrings(n) ==
    IF IsNull3(n) THEN [list |-> <<>>, err |-> FALSE]
    ELSE IF n.kind # "sequence" THEN [list |-> <<>>, err |-> TRUE]
    ELSE LET all(ds) == [list |-> [i \in 1..Len(ds) |-> ds[i].s],
                         err |-> \E i \in 1..Len(ds) : ds[i].err]
         IN all([i \in 1..Len(n.items) |-> DecodeString(n.items[i])])

KName == <<"n","a","m","e">>
KTiming == <<"t","i","m","i","n","g">>
KTarget == <<"t","a","r","g","e","t">>
KType == <<"t","y","p","e">>
KCallbacks == <<"c","a","l","l","b","a","c","k","s">>

\* a field of a struct under its yaml name: the zero value when the key is
\* missing
FieldString(n, key) ==
    IF PairAt(n, key) = 0 THEN [s |-> <<>>, err |-> FALSE]
    ELSE DecodeString(n.pairs[PairAt(n, key)].node)

\* decoding a node into a CallbackTarget (its Type): [s, err]
DecodeTarget(n) ==
    IF IsNull3(n) THEN [s |-> <<>>, err |-> FALSE]
    ELSE IF n.kind # "mapping" THEN [s |-> <<>>, err |-> TRUE]
    ELSE FieldString(n, KType)

\* decoding a node into a CallbackDefinition: [cb, err], with the fields the
\* validation reads (Name, Timing, Target.Type, Endpoints)
DecodeCallback(n) ==
    LET zero == [Name |-> <<>>, Timing |-> <<>>, Type |-> <<>>, Endpoints |-> <<>>]
        fields(name, timing, target, eps) ==
            [cb |-> [Name |-> name.s, Timing |-> timing.s, Type |-> target.s,
                     Endpoints |-> eps.list],
             err |-> name.err \/ timing.err \/ target.err \/ eps.err]
    IN IF IsNull3(n) THEN [cb |-> zero, err |-> FALSE]
       ELSE IF n.kind # "mapping" THEN [cb |-> zero, err |-> TRUE]
       ELSE fields(FieldString(n, KName), FieldString(n, KTiming),
                   IF PairAt(n, KTarget) = 0 THEN [s |-> <<>>, err |-> FALSE]
                   ELSE DecodeTarget(n.pairs[PairAt(n, KTarget)].node),
                   IF PairAt(n, KEndpoints) = 0 THEN [list |-> <<>>, err |-> FALSE]
                   ELSE DecodeStrings(n.pairs[PairAt(n, KEndpoints)].node))

\* decoding a node into a []CallbackDefinition: [list, err]
DecodeCallbacks(n) ==
    IF IsNull3(n) THEN [list |-> <<>>, err |-> FALSE]
    ELSE IF n.kind # "sequence" THEN [list |-> <<>>, err |-> TRUE]
    ELSE LET all(ds) == [list |-> [i \in 1..Len(ds) |-> ds[i].cb],
                         err |-> \E i \in 1..Len(ds) : ds[i].err]
         IN all([i \in 1..Len(n.items) |-> DecodeCallback(n.items[i])])

\* yamledit.ReadNode(doc, path, &out) for out a map[string]string and for out
\* a []CallbackDefinition: an error when the path is missing or the node does
\* not decode
ReadStrMap(doc, path) ==
    LET read(n) == IF n.kind = "invalid" THEN [map |-> NilMap, err |-> TRUE]
                   ELSE DecodeStrMap(n)
    IN read(FindNode(doc, path))
ReadCallbacks(doc, path) ==
    LET read(n) == IF n.kind = "invalid" THEN [list |-> <<>>, err |-> TRUE]
                   ELSE DecodeCallbacks(n)
    IN read(FindNode(doc, path))

(***************************************************************************)
(* The node-based configuration API: ProcessVariables, ProcessCallbacks,   *)
(* Load, Save                                                              *)
(***************************************************************************)
Variables(e, s, u, p) == [Endpoints |-> e, Secrets |-> s, Users |-> u, Paths |-> p]

RECURSIVE secretsLoop(_, _, _, _)
\* the loop over secretsNode.Content, from the i-th pair on: [node, map, err,
\* rnd]; valueNode points into the document
secretsLoop(node, m, i, rnd) ==
    IF node.kind # "mapping" \/ i > Len(node.pairs)
    THEN [node |-> node, map |-> m, err |-> FALSE, rnd |-> rnd]
    ELSE IF node.pairs[i].node.kind = "scalar" /\ node.pairs[i].node.value = <<>>
    THEN LET set(g) ==
                 IF g.err THEN [node |-> node, map |-> m, err |-> TRUE, rnd |-> rnd]
                 ELSE secretsLoop([node EXCEPT !.pairs[i].node.value = g.s],
                                  StrMapSet(m, node.pairs[i].key, g.s),
                                  i + 1, Consume(rnd, TRUE))
         IN set(GenerateJWTSecret(NextDraw(rnd)))
    ELSE secretsLoop(node, m, i + 1, rnd)

\* ProcessVariables(doc, "variables"): [vars, err, doc, rnd]; vars is Invalid
\* for the nil pointer
ProcessVariables(doc, st) ==
    LET at(k) == <<KVariables, Sections[k]>>
        fail(d, rnd) == [vars |-> Invalid, err |-> "error", doc |-> d, rnd |-> rnd]
        expanded(e, s, u, d, rnd, m, xs) ==
            IF \E i \in 1..Len(xs) : xs[i].err THEN fail(d, rnd)
            ELSE [vars |-> Variables(e, s, u,
                              [m EXCEPT !.entries = [i \in 1..Len(xs) |->
                                                        Entry(m.entries[i].key, xs[i].s)]]),
                  err |-> "nil", doc |-> d, rnd |-> rnd]
        paths(e, s, u, d, rnd, r) ==
            IF r.err THEN [vars |-> Variables(e, s, u, r.map), err |-> "nil", doc |-> d, rnd |-> rnd]
            ELSE expanded(e, s, u, d, rnd, r.map,
                          [i \in 1..Len(r.map.entries) |->
                              ExpandPath(r.map.entries[i].val, st.h)])
        users(e, s, d, rnd, r) ==
            IF ~r.err /\ \E i \in 1..Len(r.map.entries) : ValidateUsername(r.map.entries[i].val)
            THEN fail(d, rnd)
            ELSE paths(e, s, r.map, d, rnd, ReadStrMap(d, at(4)))
        updated(e, l) ==
            IF l.err THEN fail(PutNode(doc, at(2), l.node), l.rnd)
            ELSE users(e, l.map, PutNode(doc, at(2), l.node), l.rnd, ReadStrMap(doc, at(3)))
        secrets(e, r) ==
            IF r.err THEN users(e, NilMap, doc, st.rnd, ReadStrMap(doc, at(3)))
            ELSE updated(e, secretsLoop(FindNode(doc, at(2)), r.map, 1, st.rnd))
        endpoints(r) ==
            IF ~r.err /\ \E i \in 1..Len(r.map.entries) : ValidateURL(r.map.entries[i].val)
            THEN fail(doc, st.rnd)
            ELSE secrets(r.map, ReadStrMap(doc, at(2)))
    IN endpoints(ReadStrMap(doc, at(1)))

TimingPre == <<"p","r","e">>
TimingPost == <<"p","o","s","t">>
TypeFile == <<"f","i","l","e">>
TypeDirectory == <<"d","i","r","e","c","t","o","r","y">>

RECURSIVE callbacksLoop(_, _, _)
\* the validation loop, from the i-th callback on: 0, or the position of the
\* callback the error is about
callbacksLoop(list, i, vs) ==
    IF i > Len(list) THEN 0
    ELSE IF list[i].Timing \notin {TimingPre, TimingPost} THEN i
    ELSE IF list[i].Type \notin {TypeFile, TypeDirectory} THEN i
    ELSE IF \E j \in 1..Len(list[i].Endpoints) : ~HasKey(vs.Endpoints, list[i].Endpoints[j])
    THEN i
    ELSE callbacksLoop(list, i + 1, vs)

\* ProcessCallbacks had it returned the error of ReadNode instead of an empty
\* list
ProcessCallbacksStrict(doc, vs) ==
    LET checked(list, bad) ==
            IF bad # 0 THEN [list |-> <<>>, err |-> "error", bad |-> bad]
            ELSE [list |-> list, err |-> "nil", bad |-> 0]
        read(r) ==
            IF r.err THEN [list |-> <<>>, err |-> "error", bad |-> 0]
            ELSE checked(r.list, callbacksLoop(r.list, 1, vs))
    IN read(ReadCallbacks(doc, <<KCallbacks>>))

\* ProcessCallbacks(doc, "callbacks", vars): [list, err, bad]; bad is the
\* position of the callback an error names
ProcessCallbacks(doc, vs) ==
    LET checked(list, bad) ==
            IF bad # 0 THEN [list |-> <<>>, err |-> "error", bad |-> bad]
            ELSE [list |-> list, err |-> "nil", bad |-> 0]
        read(r) ==
            IF r.err THEN [list |-> <<>>, err |-> "nil", bad |-> 0]
            ELSE checked(r.list, callbacksLoop(r.list, 1, vs))
    IN read(ReadCallbacks(doc, <<KCallbacks>>))

\* Load(path, defaultYAML) of the node-based API: [doc, vars, list, err]; the
\* file is read, or the default used when there is no file
LoadDoc(dsk, defaultYAML, st) ==
    LET none == [doc |-> Invalid, vars |-> Invalid, list |-> <<>>, err |-> "error", rnd |-> st.rnd]
        called(v, c) ==
            IF c.err # "nil" THEN [none EXCEPT !.rnd = v.rnd]
            ELSE [doc |-> v.doc, vars |-> v.vars, list |-> c.list, err |-> "nil", rnd |-> v.rnd]
        processed(v) ==
            IF v.err # "nil" THEN [none EXCEPT !.rnd = v.rnd]
            ELSE called(v, ProcessCallbacks(v.doc, v.vars))
    IN IF dsk.exists THEN processed(ProcessVariables(Parse3(dsk.doc), st))
       ELSE IF defaultYAML.kind = "invalid" THEN none
       ELSE processed(ProcessVariables(Parse3(defaultYAML), st))

\* Save(path, doc) of the node-based API: the disk afterwards
SaveDoc(doc) == [exists |-> TRUE, doc |-> Encode3(doc)]

(***************************************************************************)
(* SpecDoc: a caller parses a YAML document and calls ProcessVariables,    *)
(* ProcessCallbacks, Save and Load on it                                   *)
(***************************************************************************)
Quoted(text) == YText(text, TRUE, "")
Plain(text) == YText(text, FALSE, "")
KE == <<"e">>
KS == <<"s">>
KT == <<"t">>
KU == <<"u">>
KP == <<"p">>

\* what the four sub-sections may hold (<<>> for a missing sub-section)
EndpointTexts ==
    {<<>>, <<YPair(KE, Quoted(SUrl))>>, <<YPair(KE, Quoted(SEmpty))>>, <<YPair(KE, Quoted(SUser))>>}
SecretTexts ==
    {<<>>, <<YPair(KS, Quoted(SEmpty))>>, <<YPair(KS, Plain(SEmpty))>>,
     <<YPair(KS, Quoted(SUser))>>,
     <<YPair(KS, Quoted(SEmpty)), YPair(KT, Quoted(SUser))>>,
     <<YPair(KS, Quoted(SEmpty)), YPair(KT, Quoted(SEmpty))>>,
     <<YPair(KS, Quoted(SEmpty)), YPair(KT, YSequence(<<>>))>>}
UserTexts ==
    {<<>>, <<YPair(KU, Quoted(SUser))>>, <<YPair(KU, Quoted(SEmpty))>>, <<YPair(KU, Quoted(SUrl))>>}
PathTexts == {<<>>, <<YPair(KP, Quoted(STilde))>>, <<YPair(KP, Quoted(SUser))>>}

\* a callback as written: timing, target type and endpoint keys
CallbackText(timing, type, eps) ==
    YMapping(<<YPair(KName, Quoted(<<"c">>)), YPair(KTiming, timing),
               YPair(KTarget, YMapping(<<YPair(KType, Quoted(type))>>)),
               YPair(KEndpoints, YSequence([i \in 1..Len(eps) |-> Quoted(eps[i])]))>>)
CbGood == CallbackText(Quoted(TimingPre), TypeFile, <<KE>>)
CbPlain == CallbackText(Quoted(TimingPost), TypeDirectory, <<>>)
CbBadTiming == CallbackText(Quoted(<<"m","i","d","d","l","e">>), TypeFile, <<>>)
CbBadType == CallbackText(Quoted(TimingPre), <<"i","n","v","a","l","i","d">>, <<>>)
CbTimingList == CallbackText(YSequence(<<Quoted(TimingPre)>>), TypeFile, <<>>)
\* the callbacks section (<<>> for a missing section)
CallbackTexts ==
    {<<>>, <<YPair(KCallbacks, YSequence(<<>>))>>}
    \cup {<<YPair(KCallbacks, YSequence(l))>> :
            l \in {<<CbGood>>, <<CbPlain>>, <<CbBadTiming>>, <<CbBadType>>,
                   <<CbPlain, CbBadTiming>>, <<CbBadType, CbBadTiming>>, <<CbTimingList>>}}

\* a sub-section under its key, when it is there
SubSection(key, pairs) == IF pairs = <<>> THEN <<>> ELSE <<YPair(key, YMapping(pairs))>>

\* the variables section (<<>> when all its sub-sections are missing)
VariablesText(e, s, u, p) ==
    IF e \o s \o u \o p = <<>> THEN <<>>
    ELSE <<YPair(KVariables,
                 YMapping(SubSection(KEndpoints, e) \o SubSection(KSecrets, s)
                          \o SubSection(KUsers, u) \o SubSection(KPaths, p)))>>

\* documents with a variables section (the secrets next to one other
\* sub-section), and documents with callbacks next to the endpoints they name
DocTexts ==
    UNION {{YMapping(VariablesText(e, s, <<>>, <<>>)),
            YMapping(VariablesText(<<>>, s, u, <<>>)),
            YMapping(VariablesText(<<>>, s, <<>>, p))} :
        e \in EndpointTexts, s \in SecretTexts, u \in UserTexts, p \in PathTexts}
    \cup {YMapping(VariablesText(e, <<>>, <<>>, <<>>) \o c) :
            e \in {<<>>, <<YPair(KE, Quoted(SUrl))>>}, c \in CallbackTexts}

\* the Variables a caller may hand to ProcessCallbacks
VarsChoices ==
    {Variables(NilMap, NilMap, NilMap, NilMap),
     Variables(StrMap(<<Entry(KE, SUrl)>>), NilMap, NilMap, NilMap)}

\* the defaultYAML a caller may hand to Load: none, or a small document
DefaultYAMLs ==
    {Invalid,
     YMapping(<<YPair(KVariables,
                      YMapping(<<YPair(KSecrets, YMapping(<<YPair(KS, Quoted(SEmpty))>>))>>))>>)}

\* the pairs of the secrets sub-section of a document
SecretPairs(doc) ==
    LET pairs(n) == IF n.kind = "mapping" THEN n.pairs ELSE <<>>
    IN pairs(FindNode(doc, <<KVariables, KSecrets>>))

\* the environments a call can tell apart: one draw for each empty secret (at
\* most two), and $HOME
DocEnvs(doc) ==
    LET count(ps) == Cardinality({i \in 1..Len(ps) :
                        ps[i].node.kind = "scalar" /\ ps[i].node.value = <<>>})
        tilde(es) == \E i \in 1..Len(es) : HasPrefix(es[i].val, <<"~">>)
        envs(empties, homes) ==
            [rnd : {<<a, b>> : a \in (IF empties >= 1 THEN EntropyDraws ELSE {1}),
                               b \in (IF empties >= 2 THEN EntropyDraws ELSE {1})},
             h : homes]
    IN envs(count(SecretPairs(doc)),
            IF tilde(ReadStrMap(doc, <<KVariables, KPaths>>).map.entries)
            THEN HomeDirs ELSE {HomeDir})

NoReturn == [vars |-> Invalid, list |-> <<>>]

InitDoc ==
    /\ tree \in {Parse3(t) : t \in DocTexts}
    /\ err = "none"
    /\ prev = tree
    /\ last = "none"
    /\ home = HomeDir
    /\ disk = NoDisk
    /\ ret = NoReturn
    /\ wrote = FALSE
    /\ src = Invalid
    /\ dst = Invalid
    /\ args = NoArgs

\* vars, err := ProcessVariables(doc, "variables")
ProcessVariablesStep ==
    /\ tree.kind = "mapping"
    /\ \E env \in DocEnvs(tree) :
         LET returned(r) ==
                 /\ tree' = r.doc
                 /\ ret' = [vars |-> r.vars, list |-> <<>>]
                 /\ err' = r.err
         IN /\ returned(ProcessVariables(tree, env))
            /\ home' = env.h
            /\ args' = [op |-> "ProcessVariables", env |-> env]
    /\ prev' = tree
    /\ last' = "ProcessVariables"
    /\ UNCHANGED <<disk, wrote, src, dst>>

\* callbacks, err := ProcessCallbacks(doc, "callbacks", vars)
ProcessCallbacksStep ==
    /\ tree.kind = "mapping"
    /\ \E vs \in VarsChoices :
         LET returned(r) ==
                 /\ ret' = [vars |-> vs, list |-> r.list]
                 /\ err' = r.err
                 /\ args' = [op |-> "ProcessCallbacks", bad |-> r.bad]
         IN returned(ProcessCallbacks(tree, vs))
    /\ prev' = tree
    /\ last' = "ProcessCallbacks"
    /\ UNCHANGED <<tree, home, disk, wrote, src, dst>>

\* err := Save(path, doc)
SaveDocStep ==
    /\ tree.kind = "mapping"
    /\ disk' = SaveDoc(tree)
    /\ wrote' = TRUE
    /\ err' = "nil"
    /\ prev' = tree
    /\ last' = "Save"
    /\ args' = [op |-> "Save"]
    /\ UNCHANGED <<tree, home, ret, src, dst>>

\* doc, vars, callbacks, err := Load(path, defaultYAML)
LoadDocStep ==
    /\ \E d \in DefaultYAMLs :
       \E env \in (IF disk.exists THEN DocEnvs(Parse3(disk.doc))
                   ELSE IF d.kind = "invalid" THEN DocEnvs(tree) ELSE DocEnvs(Parse3(d))) :
         LET returned(l) ==
                 /\ tree' = l.doc
                 /\ ret' = [vars |-> l.vars, list |-> l.list]
                 /\ err' = l.err
         IN /\ returned(LoadDoc(disk, d, env))
            /\ home' = env.h
            /\ args' = [op |-> "Load", env |-> env]
    /\ prev' = tree
    /\ last' = "Load"
    /\ UNCHANGED <<disk, wrote, src, dst>>

NextDoc == ProcessVariablesStep \/ ProcessCallbacksStep \/ SaveDocStep \/ LoadDocStep

SpecDoc == InitDoc /\ [][NextDoc]_vars

(***************************************************************************)
(* Properties of the node-based API                                        *)
(***************************************************************************)
\* the strings a sub-section of a document holds, as the decoder reads them
SectionValues(doc, k) ==
    {ReadStrMap(doc, <<KVariables, Sections[k]>>).map.entries[i].val :
        i \in 1..Len(ReadStrMap(doc, <<KVariables, Sections[k]>>).map.entries)}

\* C13 (ProcessVariables entry point): empty values bypass validation.  When
\* the users and endpoints sub-sections hold nothing but empty strings and
\* there is nothing else to process, ProcessVariables returns no error and
\* leaves the document unchanged.
C13_EmptyBypasses ==
    (/\ last = "ProcessVariables"
     /\ SectionValues(prev, 1) \cup SectionValues(prev, 3) = {<<>>}
     /\ FindNode(prev, <<KVariables, KSecrets>>).kind = "invalid"
     /\ FindNode(prev, <<KVariables, KPaths>>).kind = "invalid")
        => (err = "nil" /\ tree = prev)

\* m[key], for a key of m
StrMapGet(m, key) == m.entries[CHOOSE i \in 1..Len(m.entries) : m.entries[i].key = key].val

\* C19: ProcessVariables keeps the document and the returned map in step for
\* secrets.  After a successful call, every secret that was empty holds one
\* generated value, the same in Variables.Secrets and in the document node;
\* every other secret is unchanged in both; and the saved document, read
\* again, gives exactly the returned secrets.
C19_SecretsInStep ==
    (last = "ProcessVariables" /\ err = "nil" /\ SecretPairs(prev) # <<>>) =>
        /\ \A i \in 1..Len(SecretPairs(prev)) :
              /\ HasKey(ret.vars.Secrets, SecretPairs(prev)[i].key)
              /\ SecretPairs(tree)[i].node.kind = "scalar"
              /\ StrMapGet(ret.vars.Secrets, SecretPairs(prev)[i].key)
                    = SecretPairs(tree)[i].node.value
              /\ IF SecretPairs(prev)[i].node.value = <<>>
                 THEN IsHex64(SecretPairs(tree)[i].node.value)
                 ELSE SecretPairs(tree)[i].node = SecretPairs(prev)[i].node
        /\ ReadStrMap(Parse3(SaveDoc(tree).doc), <<KVariables, KSecrets>>)
              = [map |-> ret.vars.Secrets, err |-> FALSE]

\* the callbacks a document lists
CallbackNodes(doc) ==
    IF FindNode(doc, <<KCallbacks>>).kind = "sequence"
    THEN FindNode(doc, <<KCallbacks>>).items ELSE <<>>

\* the text of a scalar under a path of a callback, Invalid when it is not there
\* or not a scalar
ScalarAt(n, path) ==
    IF FindNode(n, path).kind = "scalar" THEN FindNode(n, path).value ELSE Invalid

\* a callback as the README describes a valid one
CallbackValid(n, vs) ==
    /\ ScalarAt(n, <<KTiming>>) \in {TimingPre, TimingPost}
    /\ ScalarAt(n, <<KTarget, KType>>) \in {TypeFile, TypeDirectory}
    /\ FindNode(n, <<KEndpoints>>).kind = "sequence"
    /\ \A j \in 1..Len(FindNode(n, <<KEndpoints>>).items) :
          /\ FindNode(n, <<KEndpoints>>).items[j].kind = "scalar"
          /\ HasKey(vs.Endpoints, FindNode(n, <<KEndpoints>>).items[j].value)

\* C20: ProcessCallbacks accepts exactly the valid callback lists.  It returns
\* nil exactly when every callback of the document has timing pre or post,
\* target type file or directory and only endpoint keys of vars.Endpoints;
\* otherwise the error is about the first offending callback in document
\* order and no callbacks are returned.
C20_CallbacksExact ==
    last = "ProcessCallbacks" =>
        LET offending == {i \in 1..Len(CallbackNodes(prev)) :
                             ~CallbackValid(CallbackNodes(prev)[i], ret.vars)}
        IN /\ err = "nil" <=> offending = {}
           /\ err # "nil" =>
                 /\ err = "error"
                 /\ ret.list = <<>>
                 /\ args.bad \in offending
                 /\ \A i \in offending : args.bad <= i

\* a section of the document is missing: no node under its key
Missing(doc, path) == FindNode(doc, path).kind = "invalid"

\* C21: a missing optional section is not an error.  ProcessVariables on a
\* document without a variables section returns nil with all four maps nil;
\* ProcessCallbacks on a document without a callbacks section returns nil with
\* an empty list; the document is the same afterwards in both cases.
C21_MissingSections ==
    /\ (last = "ProcessVariables" /\ Missing(prev, <<KVariables>>)) =>
           /\ err = "nil"
           /\ ret.vars = Variables(NilMap, NilMap, NilMap, NilMap)
           /\ tree = prev
    /\ (last = "ProcessCallbacks" /\ Missing(prev, <<KCallbacks>>)) =>
           /\ err = "nil"
           /\ ret.list = <<>>
           /\ tree = prev

\* C21 witness: ProcessCallbacks returned nil and no callbacks on a document
\* that has a variables section and no callbacks section.
C21_Witness ==
    /\ last = "ProcessCallbacks" /\ err = "nil" /\ ret.list = <<>>
    /\ Missing(prev, <<KCallbacks>>)
    /\ ~Missing(prev, <<KVariables>>)

\* a variables sub-section that is present and does not decode
Unreadable(doc, k) ==
    /\ ~Missing(doc, <<KVariables, Sections[k]>>)
    /\ ReadStrMap(doc, <<KVariables, Sections[k]>>).err

\* a callbacks section that is present and does not decode
UnreadableCallbacks(doc) ==
    /\ ~Missing(doc, <<KCallbacks>>)
    /\ ReadCallbacks(doc, <<KCallbacks>>).err

\* C22 (as claimed): only absence is tolerated.  When a variables sub-section
\* or the callbacks section is present in the document and reading it fails,
\* ProcessVariables, ProcessCallbacks and Load (of the file that holds the
\* document) return an error.
C22_OnlyAbsenceTolerated ==
    /\ (last = "ProcessVariables" /\ \E k \in 1..Len(Sections) : Unreadable(prev, k))
           => err # "nil"
    /\ (last = "ProcessCallbacks" /\ UnreadableCallbacks(prev)) => err # "nil"
    /\ (last = "Load" /\ disk.exists
         /\ \/ \E k \in 1..Len(Sections) : Unreadable(Parse3(disk.doc), k)
            \/ UnreadableCallbacks(Parse3(disk.doc)))
           => err # "nil"

(***************************************************************************)
(* SpecWalk: one call of Process, step by step.  Every call of             *)
(* processValue is a frame on a stack; a step is one iteration of the loop *)
(* of the frame on top, or one return to the caller.                       *)
(***************************************************************************)
\* the keys v.MapKeys() returns, taken once before the loop
MapKeys(v, rev) ==
    IF v.kind = "map" /\ v.keykind = "string"
    THEN [j \in 1..Len(v.entries) |-> v.entries[MapOrder(Len(v.entries), rev)[j]].key]
    ELSE <<>>

\* the position of a key among the entries of a map (v.MapIndex(key))
KeyPos(v, key) == CHOOSE k \in 1..Len(v.entries) : v.entries[k].key = key

\* a call processValue(v, name) on the node at path: v is the callee's value,
\* i the next loop index, orig the value on entry, done and err the return
Frame(v, name, canSet, path, rev) ==
    [v |-> v, i |-> 1, name |-> name, canSet |-> canSet, path |-> path,
     keys |-> MapKeys(v, rev), orig |-> v, done |-> FALSE, err |-> "nil"]

\* the walk: the stack of frames (the last is on top), the paths of the nodes
\* visited so far, the entropy left, and the number of steps taken
Walk(stack, log, rnd) == [stack |-> stack, log |-> log, rnd |-> rnd, steps |-> 0]
NoWalk == Walk(<<>>, <<>>, <<1, 1>>)

Top(w) == w.stack[Len(w.stack)]
SetTop(w, f) == [w EXCEPT !.stack[Len(w.stack)] = f]
Returns(f, e) == [f EXCEPT !.done = TRUE, !.err = e]
\* the top frame calls processValue on a child
Push(w, f, child) ==
    [w EXCEPT !.stack = Append(w.stack, child), !.log = Append(w.log, child.path)]

\* the top frame hands a string of its own to processString: the node at path
\* (one of visits, unless it is the frame's own) is visited; put(s) is the
\* frame's value with the result stored
StringStep(w, f, s, name, visits, h, put(_)) ==
    LET set(r) ==
            [w EXCEPT !.stack[Len(w.stack)] =
                          IF r.err THEN Returns(f, "error")
                          ELSE [f EXCEPT !.v = put(r.s), !.i = f.i + 1],
                      !.log = w.log \o visits,
                      !.rnd = Consume(w.rnd, r.used)]
    IN set(processString(s, name, NextDraw(w.rnd), h))

\* one step of the frame on top, which has not returned yet
Advance(w, env) ==
    LET f == Top(w)
        v == f.v
        skip == SetTop(w, [f EXCEPT !.i = f.i + 1])
        return == SetTop(w, Returns(f, "nil"))
        at(k) == Append(f.path, k)
    IN CASE v.kind \in {"ptr", "interface"} ->
              IF v.isnil THEN return
              ELSE Push(w, f, Frame(v.elem[1], f.name, v.kind = "ptr", at(1), env.rev))
         [] v.kind = "struct" ->
              IF f.i > Len(v.fields) THEN return
              ELSE LET fld == v.fields[f.i]
                       put(s) == Struct(v.tname, [v.fields EXCEPT ![f.i] =
                                                     Field(fld.name, fld.exported, Str(s))])
                   IN IF ~fld.exported THEN skip
                      ELSE IF fld.val.kind = "string" /\ f.canSet
                      THEN StringStep(w, f, fld.val.str, fld.name, <<at(f.i)>>, env.h, put)
                      ELSE Push(w, f, Frame(fld.val, fld.name, f.canSet, at(f.i), env.rev))
         [] v.kind = "map" ->
              IF v.keykind # "string" \/ f.i > Len(f.keys) THEN return
              ELSE LET pos == KeyPos(v, f.keys[f.i])
                       e == v.entries[pos]
                       valItem == Unwrap(e.val)
                       put(s) == MapOf(v.keykind, [v.entries EXCEPT ![pos] =
                                                      Entry(e.key, Rebox(e.val, Str(s)))])
                   IN IF valItem.kind = "string"
                      THEN StringStep(w, f, valItem.str, e.key, <<at(pos)>>, env.h, put)
                      ELSE IF valItem.kind \in RecurseKinds
                      THEN Push(w, f, Frame(valItem, e.key, TRUE, at(pos), env.rev))
                      ELSE skip
         [] v.kind \in {"slice", "array"} ->
              IF f.i > Len(v.elems) THEN return
              ELSE LET el == v.elems[f.i]
                       elemVal == Unwrap(el)
                       put(s) == [v EXCEPT !.elems[f.i] = Str(s)]
                   IN IF elemVal.kind = "string" /\ (v.kind = "slice" \/ f.canSet)
                         /\ ~IsBoxed(el)
                      THEN StringStep(w, f, elemVal.str, f.name, <<at(f.i)>>, env.h, put)
                      ELSE IF elemVal.kind \in RecurseKinds
                      THEN Push(w, f, Frame(elemVal, f.name, TRUE, at(f.i), env.rev))
                      ELSE skip
         [] v.kind = "string" ->
              IF f.canSet /\ f.i = 1
              THEN StringStep(w, f, v.str, f.name, <<>>, env.h, LAMBDA s : Str(s))
              ELSE return
         [] OTHER -> return

\* the frame on top has returned to the frame p below it, which stores the
\* result and goes on or returns the error
Resume(p, f, env) ==
    LET on(x) == IF f.err = "nil" THEN [p EXCEPT !.v = x, !.i = p.i + 1]
                 ELSE Returns([p EXCEPT !.v = x], f.err)
        copy == IF f.err = "nil" THEN f.v ELSE Dropped(f.orig, f.v, env)
    IN CASE p.v.kind = "ptr" -> Returns([p EXCEPT !.v = Ptr(f.v)], f.err)
         [] p.v.kind = "interface" -> Returns([p EXCEPT !.v = Iface(f.v)], f.err)
         [] p.v.kind = "struct" ->
              on(Struct(p.v.tname, [p.v.fields EXCEPT ![p.i] =
                                       Field(@.name, @.exported, f.v)]))
         [] p.v.kind = "map" ->
              LET pos == KeyPos(p.v, p.keys[p.i]) IN
              on(MapOf(p.v.keykind, [p.v.entries EXCEPT ![pos] =
                                        Entry(@.key, Rebox(@.val, copy))]))
         [] OTHER ->
              \* v.Index(i).Set on an unaddressable array element
              IF f.err = "nil" /\ p.v.kind = "array" /\ ~p.canSet
              THEN Returns([p EXCEPT !.v.elems[p.i] = Rebox(@, Dropped(f.orig, f.v, env))],
                           "panic")
              ELSE on([p.v EXCEPT !.elems[p.i] = Rebox(@, copy)])

\* the trees of the walk: the holders, the roots that stand for nothing, the
\* maps held under a name, and the holders of one name wrapped once
WalkTrees ==
    Holders \cup AbsentRoots \cup NamedHolders \cup ThreeFields \cup NilHolders
    \cup UNION {Wraps(h) : h \in {x \in Holders : \E i \in 1..Len(Kids(x)) :
                                     Kids(x)[i] \in {Str(STilde), Iface(Str(STilde)),
                                                     Slice(<<Str(STilde)>>)}}}

InitWalk ==
    /\ tree \in WalkTrees
    /\ err = "none"
    /\ prev = tree
    /\ last = "none"
    /\ home = HomeDir
    /\ disk = NoDisk
    /\ ret = NoWalk
    /\ wrote = FALSE
    /\ src = Invalid
    /\ dst = Invalid
    /\ args = NoArgs

\* Process(cfg) is called: processValue(reflect.ValueOf(cfg), "")
CallStep ==
    /\ last = "none"
    /\ \E env \in EnvsOf(tree) :
         /\ ret' = Walk(<<Frame(tree, <<>>, FALSE, <<>>, env.rev)>>, <<<<>>>>, env.rnd)
         /\ home' = env.h
         /\ args' = [op |-> "Process", env |-> env]
    /\ prev' = tree
    /\ last' = "processValue"
    /\ UNCHANGED <<tree, err, disk, wrote, src, dst>>

\* the call on top of the stack makes its next step
WalkStep ==
    /\ last = "processValue"
    /\ ~Top(ret).done
    /\ ret' = [Advance(ret, args.env) EXCEPT !.steps = ret.steps + 1]
    /\ UNCHANGED <<tree, err, prev, last, home, disk, wrote, src, dst, args>>

\* the call on top of the stack returns: to its caller, or, the first call, to
\* the caller of Process, who then sees the tree and the error
ReturnStep ==
    /\ last = "processValue"
    /\ Top(ret).done
    /\ IF Len(ret.stack) = 1
       THEN /\ tree' = Top(ret).v
            /\ err' = Top(ret).err
            /\ last' = "Process"
            /\ ret' = [ret EXCEPT !.stack = <<>>, !.steps = ret.steps + 1]
       ELSE /\ ret' = [ret EXCEPT !.stack =
                          Append(SubSeq(ret.stack, 1, Len(ret.stack) - 2),
                                 Resume(ret.stack[Len(ret.stack) - 1], Top(ret), args.env)),
                                  !.steps = ret.steps + 1]
            /\ UNCHANGED <<tree, err, last>>
    /\ UNCHANGED <<prev, home, disk, wrote, src, dst, args>>

NextWalk == CallStep \/ WalkStep \/ ReturnStep

\* the scheduler runs the one goroutine of the call: a step that can be taken
\* is taken
SpecWalk == InitWalk /\ [][NextWalk]_vars /\ WF_vars(NextWalk)

\* the walk ends where Process ends: the same tree and the same outcome
WalkAgrees ==
    last = "Process" =>
        LET same(r) == tree = r.val /\ err = r.err IN same(Process(prev, args.env))

\* no node is visited twice
NoRevisit == \A i, j \in 1..Len(ret.log) : ret.log[i] = ret.log[j] => i = j

RECURSIVE NodeCount(_)
\* the number of nodes of a tree
NodeCount(v) ==
    LET RECURSIVE sum(_)
        sum(i) == IF i > Len(Kids(v)) THEN 0 ELSE NodeCount(Kids(v)[i]) + sum(i + 1)
    IN 1 + sum(1)

\* C27 (as claimed): termination.  Process, called on a finite acyclic tree,
\* visits no node twice and makes no more visits than the tree has nodes; as
\* long as it has not returned it can take a step, it takes no more than four
\* steps for each node, and what it returns is nil or an error.
C27_Terminates ==
    /\ NoRevisit
    /\ Len(ret.log) <= NodeCount(prev)
    /\ ret.steps <= 4 * NodeCount(prev)
    /\ last = "processValue" => ret.stack # <<>>
    /\ last = "Process" => err \in {"nil", "error"}

====
